---------------------------- MODULE Spec2Model ----------------------------
(***************************************************************************)
(* Document retrieval core of the document Q&A application:                *)
(*   - extractBasicPdfText  (the regular-expression text scavenger)        *)
(*   - cleanText, splitTextIntoChunks, cosineSimilarity,                   *)
(*     findSimilarDocuments and the POST handler of api/chat/route.ts.     *)
(* and of its client:                                                      *)
(*   - the ChatInterface component (handleSubmit and the Send button)      *)
(*   - the PdfPreview component (the render effect and its retry timer).   *)
(*                                                                         *)
(* A string is a sequence of character codes (UTF-16 code units), so that  *)
(* the regular expressions' character classes are sets of numbers.         *)
(***************************************************************************)
EXTENDS Integers, Sequences, FiniteSets, TLC

VARIABLES
    \* extractBasicPdfText
    base64Data,      \* the argument
    exPc,            \* "call", "decoded", "collected", "resolved"
    decodedData,     \* atob's result ("" until decoded, or when atob throws)
    textFragments,   \* the fragments pushed by the seven passes, in push order
    extractedText,   \* the text after clean-up and sentence deduplication
    exResult         \* the string the promise resolves with

exVars == <<base64Data, exPc, decodedData, textFragments, extractedText, exResult>>

VARIABLES
    \* splitTextIntoChunks
    text,            \* the arguments
    chunkSize,
    overlap,
    chPc,            \* "idle", "sections" (the for loop), "window" (the while loop), "done"
    sections,        \* cleanedText.split(/\n{2,}/)
    sectionNo,       \* the for loop's position in sections (1-based)
    index,           \* the while loop's window start (0-based, as in the code)
    chunks,          \* the chunks pushed so far
    windows,         \* history: per while-loop iteration and per short section,
                     \* [section, start, end, pushed]: the slice [start, end) taken
    iterations       \* history: iterations of the while loop in this section

chVars == <<text, chunkSize, overlap, chPc, sections, sectionNo, index, chunks,
            windows, iterations>>

VARIABLES
    \* findSimilarDocuments
    rkPc,            \* "idle", "embedQuery", "returned", "threw"
    docEmbeddings,   \* embedDocuments' answer: one vector per document of docs
    queryEmbedding,  \* embedQuery's answer
    k,               \* the argument k
    similarities,    \* cosineSimilarity(queryEmbedding, embedding) per document
    ranked           \* the returned documents, as positions in docs (1-based)

rkVars == <<rkPc, docEmbeddings, queryEmbedding, k, similarities, ranked>>

VARIABLES
    \* the module state of api/chat/route.ts and one POST request
    apiKey,          \* HUGGINGFACEHUB_API_KEY is set
    embeddingModel,  \* embeddingModel is not null
    llm,             \* llm is not null
    rqPc,            \* "idle", "formData", "file", "rank", "embedQuery",
                     \* "generate": the await processingPromise stands at;
                     \* "settled"; "refused"
    files,           \* formData.getAll('files')
    question,        \* formData.get('question')
    formReadable,    \* req.formData() resolves
    fileNo,          \* the for loop's position in files (1-based)
    docs,            \* the documents pushed so far
    relevantDocs,    \* findSimilarDocuments' answer
    processed,       \* what processingPromise settled with
    response,        \* what POST returned
    llmCalls         \* history: the calls of llm.predict

rqVars == <<apiKey, embeddingModel, llm, rqPc, files, question, formReadable,
            fileNo, docs, relevantDocs, processed, response, llmCalls>>

VARIABLES
    \* two POST requests in flight at once, under the same module state
    inFlight,        \* per request: the locals of its POST call
    docsArrays       \* per call of the processing closure: its docs array

ccVars == <<inFlight, docsArrays>>

VARIABLES
    \* calls of extractBasicPdfText one after another
    lastIndex,       \* lastIndex of the regular expressions of the call: the
                     \* seven of the passes, and innerTextRegex as the 8th
    passNo,          \* the pass the call is at
    resolvedCalls    \* history: the <<argument, result>> of the earlier calls

puVars == <<lastIndex, passNo, resolvedCalls>>

VARIABLES
    \* the ChatInterface component
    component,       \* the version mounted: "part_008" or "part_006"
    uiFiles,         \* the files state: per file, whether it exceeds 10 MB
    messages,        \* the messages state
    isProcessing,    \* the isProcessing state
    error,           \* the error state ("" for null)
    submitPc,        \* the await handleSubmit stands at: "idle",
                     \* "clientSide" (processFilesClientSide), "fetch"
    questionsSent,   \* history: the questions submitted
    answersShown     \* history: the AI messages handleSubmit has appended

uiVars == <<component, uiFiles, messages, isProcessing, error, submitPc,
            questionsSent, answersShown>>

VARIABLES
    \* the PdfPreview component
    pdfDocument,     \* pdfDocument is not null
    loading,         \* the loading state
    previewError,    \* the component's error state is not null
    renderAttempts,  \* the renderAttempts state
    effectDue,       \* a dependency of the render effect changed: it will run
    renderCalls,     \* the renderPage calls in flight: per call, the
                     \* renderAttempts its closure holds
    retryTimers,     \* the 500 ms timers pending: per timer, the closure's
                     \* renderAttempts
    attemptsMade,    \* history: the render attempts started since the last
                     \* success or Retry
    callsOfRenderPage \* history: the render attempts started since the mount

pvVars == <<pdfDocument, loading, previewError, renderAttempts, effectDue,
            renderCalls, retryTimers, attemptsMade, callsOfRenderPage>>

vars == <<exVars, chVars, rkVars, rqVars, ccVars, puVars, uiVars, pvVars>>

----------------------------------------------------------------------------
(* Characters and generic string helpers                                   *)

LParen    == 40
RParen    == 41
Backslash == 92
Space     == 32

\* \s of a JavaScript regular expression, restricted to the code units the
\* model uses (<= U+FFFF): TAB LF VT FF CR SP NBSP and U+FEFF.
IsSpace(c) == c \in {9, 10, 11, 12, 13, 32, 160, 65279}

\* [\x20-\x7E\s]
IsPrintableOrSpace(c) == (c >= 32 /\ c <= 126) \/ IsSpace(c)

Min(S) == CHOOSE x \in S : \A y \in S : x <= y

\* s.slice(from - 1, to) with 1-based inclusive bounds; empty when from > to.
Slice(s, from, to) == IF from > to THEN <<>> ELSE SubSeq(s, from, to)

\* s.indexOf(c, from - 1) + 1: the first position >= from holding c, 0 if none.
IndexOf(s, c, from) ==
    LET hits == {j \in from..Len(s) : s[j] = c}
    IN  IF hits = {} THEN 0 ELSE Min(hits)

\* The first position >= from whose character is not white space (Len(s)+1
\* when the rest of s is white space): where a greedy \s* stops.
SkipSpace(s, from) ==
    LET stops == {j \in from..Len(s) : ~IsSpace(s[j])}
    IN  IF stops = {} THEN Len(s) + 1 ELSE Min(stops)

StartsWithAt(s, prefix, i) ==
    /\ i >= 1
    /\ i + Len(prefix) - 1 <= Len(s)
    /\ SubSeq(s, i, i + Len(prefix) - 1) = prefix

RECURSIVE Join(_, _)
\* parts.join(sep)
Join(parts, sep) ==
    IF parts = <<>> THEN <<>>
    ELSE IF Len(parts) = 1 THEN parts[1]
    ELSE parts[1] \o sep \o Join(Tail(parts), sep)

RECURSIVE ReplacePair(_, _, _, _)
\* s.replace(/<c1><c2>/g, repl) for a two-character pattern.
ReplacePair(s, c1, c2, repl) ==
    IF Len(s) < 2 THEN s
    ELSE IF s[1] = c1 /\ s[2] = c2
         THEN repl \o ReplacePair(SubSeq(s, 3, Len(s)), c1, c2, repl)
         ELSE <<s[1]>> \o ReplacePair(Tail(s), c1, c2, repl)

\* s.replace(/<c>/g, '')
RemoveChar(s, c) == SelectSeq(s, LAMBDA x : x # c)

\* s.replace(/\s+/g, ' '): each run of white space becomes one space.
CollapseSpace(s) ==
    LET first == [j \in 1..Len(s) |->
                    IF ~IsSpace(s[j]) THEN s[j]
                    ELSE IF j > 1 /\ IsSpace(s[j - 1]) THEN -1
                    ELSE Space]
    IN  SelectSeq(first, LAMBDA c : c # -1)

\* s.trim()
Trim(s) ==
    LET keep == {j \in 1..Len(s) : ~IsSpace(s[j])}
        back == {j \in 1..Len(s) : ~IsSpace(s[Len(s) + 1 - j])}
    IN  IF keep = {} THEN <<>>
        ELSE SubSeq(s, Min(keep), Len(s) + 1 - Min(back))

----------------------------------------------------------------------------
(* atob: forgiving base64 decoding, and the encoder that builds the inputs *)

IsAsciiSpace(c) == c \in {9, 10, 12, 13, 32}

IsBase64Char(c) ==
    \/ (c >= 65 /\ c <= 90) \/ (c >= 97 /\ c <= 122) \/ (c >= 48 /\ c <= 57)
    \/ c = 43 \/ c = 47

Base64Value(c) ==
    IF c >= 65 /\ c <= 90 THEN c - 65
    ELSE IF c >= 97 /\ c <= 122 THEN c - 97 + 26
    ELSE IF c >= 48 /\ c <= 57 THEN c - 48 + 52
    ELSE IF c = 43 THEN 62 ELSE 63

Base64Char(v) ==
    IF v < 26 THEN 65 + v
    ELSE IF v < 52 THEN 97 + (v - 26)
    ELSE IF v < 62 THEN 48 + (v - 52)
    ELSE IF v = 62 THEN 43 ELSE 47

RECURSIVE DecodeGroups(_)
\* Four characters give three bytes; a tail of two gives one byte and a tail
\* of three gives two, the left-over bits being dropped.
DecodeGroups(d) ==
    IF Len(d) < 2 THEN <<>>
    ELSE LET v1 == Base64Value(d[1])
             v2 == Base64Value(d[2])
             b1 == v1 * 4 + (v2 \div 16)
         IN  IF Len(d) = 2 THEN <<b1>>
             ELSE LET v3 == Base64Value(d[3])
                      b2 == (v2 % 16) * 16 + (v3 \div 4)
                  IN  IF Len(d) = 3 THEN <<b1, b2>>
                      ELSE <<b1, b2, (v3 % 4) * 64 + Base64Value(d[4])>>
                           \o DecodeGroups(SubSeq(d, 5, Len(d)))

\* atob(data): [ok |-> FALSE] when atob throws, else the decoded bytes.
Atob(data) ==
    LET noSpace == SelectSeq(data, LAMBDA c : ~IsAsciiSpace(c))
        n       == Len(noSpace)
        unpadded ==
            IF n > 0 /\ n % 4 = 0 /\ noSpace[n] = 61
            THEN IF noSpace[n - 1] = 61 THEN SubSeq(noSpace, 1, n - 2)
                                       ELSE SubSeq(noSpace, 1, n - 1)
            ELSE noSpace
    IN  IF Len(unpadded) % 4 = 1 \/ \E j \in 1..Len(unpadded) : ~IsBase64Char(unpadded[j])
        THEN [ok |-> FALSE, bytes |-> <<>>]
        ELSE [ok |-> TRUE, bytes |-> DecodeGroups(unpadded)]

RECURSIVE Btoa(_)
\* The standard padded base64 encoding of a byte string.
Btoa(b) ==
    IF b = <<>> THEN <<>>
    ELSE IF Len(b) = 1
         THEN <<Base64Char(b[1] \div 4), Base64Char((b[1] % 4) * 16), 61, 61>>
    ELSE IF Len(b) = 2
         THEN <<Base64Char(b[1] \div 4),
                Base64Char((b[1] % 4) * 16 + (b[2] \div 16)),
                Base64Char((b[2] % 16) * 4), 61>>
    ELSE <<Base64Char(b[1] \div 4),
           Base64Char((b[1] % 4) * 16 + (b[2] \div 16)),
           Base64Char((b[2] % 16) * 4 + (b[3] \div 64)),
           Base64Char(b[3] % 64)>> \o Btoa(SubSeq(b, 4, Len(b)))


----------------------------------------------------------------------------
(* extractBasicPdfText: the seven extraction passes                        *)

ErrorDecodingMsg ==   \* 'Error decoding PDF data'
    <<69, 114, 114, 111, 114, 32, 100, 101, 99, 111, 100, 105, 110, 103, 32,
      80, 68, 70, 32, 100, 97, 116, 97>>

NoExtractableTextMsg ==
    \* "This PDF file doesn't contain easily extractable text. It might be
    \*  scanned or image-based."
    <<84, 104, 105, 115, 32, 80, 68, 70, 32, 102, 105, 108, 101, 32, 100, 111,
      101, 115, 110, 39, 116, 32, 99, 111, 110, 116, 97, 105, 110, 32, 101, 97,
      115, 105, 108, 121, 32, 101, 120, 116, 114, 97, 99, 116, 97, 98, 108,
      101, 32, 116, 101, 120, 116, 46, 32, 73, 116, 32, 109, 105, 103, 104,
      116, 32, 98, 101, 32, 115, 99, 97, 110, 110, 101, 100, 32, 111, 114, 32,
      105, 109, 97, 103, 101, 45, 98, 97, 115, 101, 100, 46>>

UnableToExtractMsg ==   \* "Unable to extract meaningful text from this PDF."
    <<85, 110, 97, 98, 108, 101, 32, 116, 111, 32, 101, 120, 116, 114, 97, 99,
      116, 32, 109, 101, 97, 110, 105, 110, 103, 102, 117, 108, 32, 116, 101,
      120, 116, 32, 102, 114, 111, 109, 32, 116, 104, 105, 115, 32, 80, 68, 70,
      46>>

DataUrlPrefix ==   \* data:application/pdf;base64,
    <<100, 97, 116, 97, 58, 97, 112, 112, 108, 105, 99, 97, 116, 105, 111, 110,
      47, 112, 100, 102, 59, 98, 97, 115, 101, 54, 52, 44>>

TextMarker     == <<47, 84, 101, 120, 116>>                       \* /Text
TJMarker       == <<47, 84, 74>>                                  \* /TJ
TjMarker       == <<47, 84, 106>>                                 \* /Tj
ContentsMarker == <<47, 67, 111, 110, 116, 101, 110, 116, 115>>   \* /Contents
BTMarker       == <<66, 84>>                                      \* BT

\* base64Data.replace(/^data:application\/pdf;base64,/, '')
StripDataUrlPrefix(data) ==
    IF StartsWithAt(data, DataUrlPrefix, 1)
    THEN Slice(data, Len(DataUrlPrefix) + 1, Len(data))
    ELSE data

\* \(([^)]+)\) anchored at the '(' in position p: the position of the closing
\* ')', which is the first ')' after p, provided one character at least lies
\* between them; 0 when the pattern does not match at p.
LiteralEnd(s, p) ==
    LET close == IndexOf(s, RParen, p + 1)
    IN  IF close = 0 \/ close = p + 1 THEN 0 ELSE close

\* [a-zA-Z0-9,\.\s']
IsWordSequenceChar(c) ==
    \/ (c >= 97 /\ c <= 122) \/ (c >= 65 /\ c <= 90) \/ (c >= 48 /\ c <= 57)
    \/ c \in {44, 46, 39} \/ IsSpace(c)

\* \(([a-zA-Z0-9,\.\s']{3,})\) anchored at the '(' in position p.
WordSequenceEnd(s, p) ==
    LET stops == {j \in (p + 1)..Len(s) : ~IsWordSequenceChar(s[j])}
        stop  == IF stops = {} THEN 0 ELSE Min(stops)
    IN  IF stop # 0 /\ s[stop] = RParen /\ stop - p - 1 >= 3 THEN stop ELSE 0

NoMatch == [open |-> 0, close |-> 0]

\* <marker>\s*\(([^)]+)\) anchored at position i.
MarkerThenLiteral(s, i, marker) ==
    IF ~StartsWithAt(s, marker, i) THEN NoMatch
    ELSE LET p == SkipSpace(s, i + Len(marker))
         IN  IF p <= Len(s) /\ s[p] = LParen /\ LiteralEnd(s, p) # 0
             THEN [open |-> p, close |-> LiteralEnd(s, p)]
             ELSE NoMatch

RECURSIVE TJGroups(_, _, _)
\* (?:\([^)]+\)\s*)+\] from position p; some says one group is already read.
\* The position of the closing ']', or 0.
TJGroups(s, p, some) ==
    IF p > Len(s) THEN 0
    ELSE IF s[p] = LParen /\ LiteralEnd(s, p) # 0
         THEN TJGroups(s, SkipSpace(s, LiteralEnd(s, p) + 1), TRUE)
         ELSE IF some /\ s[p] = 93 THEN p ELSE 0

\* The regular expression of one pass anchored at position i: the capture
\* group is s[open+1 .. close-1] and the match ends at close. For pass 3
\* (the /TJ array) open is the start of the match and close its ']'.
MatchAt(pass, s, i) ==
    CASE pass = 1 ->
           IF s[i] = LParen /\ LiteralEnd(s, i) # 0
           THEN [open |-> i, close |-> LiteralEnd(s, i)] ELSE NoMatch
      [] pass = 2 ->     \* \/Text[^(]*\(([^)]+)\)
           IF ~StartsWithAt(s, TextMarker, i) THEN NoMatch
           ELSE LET p == IndexOf(s, LParen, i + Len(TextMarker))
                IN  IF p # 0 /\ LiteralEnd(s, p) # 0
                    THEN [open |-> p, close |-> LiteralEnd(s, p)] ELSE NoMatch
      [] pass = 3 ->     \* \/TJ\s*\[\s*(?:\([^)]+\)\s*)+\]
           IF ~StartsWithAt(s, TJMarker, i) THEN NoMatch
           ELSE LET b == SkipSpace(s, i + Len(TJMarker))
                IN  IF b <= Len(s) /\ s[b] = 91
                       /\ TJGroups(s, SkipSpace(s, b + 1), FALSE) # 0
                    THEN [open |-> i,
                          close |-> TJGroups(s, SkipSpace(s, b + 1), FALSE)]
                    ELSE NoMatch
      [] pass = 4 -> MarkerThenLiteral(s, i, TjMarker)
      [] pass = 5 -> MarkerThenLiteral(s, i, ContentsMarker)
      [] pass = 6 -> MarkerThenLiteral(s, i, BTMarker)
      [] pass = 7 ->
           IF s[i] = LParen /\ WordSequenceEnd(s, i) # 0
           THEN [open |-> i, close |-> WordSequenceEnd(s, i)] ELSE NoMatch

RECURSIVE ExecAll(_, _, _)
\* The matches of while ((match = regex.exec(s)) !== null) with a /g regular
\* expression whose lastIndex is from - 1: the leftmost match at or after
\* from, then the matches after its end.
ExecAll(pass, s, from) ==
    LET starts == {i \in from..Len(s) : MatchAt(pass, s, i).close # 0}
    IN  IF starts = {} THEN <<>>
        ELSE LET m == MatchAt(pass, s, Min(starts))
             IN  <<m>> \o ExecAll(pass, s, m.close + 1)

\* match[1] of a match of passes 1, 2, 4, 5, 6, 7.
Capture(s, m) == Slice(s, m.open + 1, m.close - 1)

\* /^[\x20-\x7E\s]+$/.test(t) && t.length > 1
LooksLikeText(t) ==
    /\ Len(t) > 1
    /\ \A j \in 1..Len(t) : IsPrintableOrSpace(t[j])

\* t.split(/\s+/).length > 2
HasMultipleWords(t) ==
    Cardinality({j \in 1..Len(t) :
                    IsSpace(t[j]) /\ (j = 1 \/ ~IsSpace(t[j - 1]))}) + 1 > 2

Captures(pass, s) ==
    LET ms == ExecAll(pass, s, 1)
    IN  [m \in 1..Len(ms) |-> Capture(s, ms[m])]

RECURSIVE Flatten(_)
Flatten(seqs) == IF seqs = <<>> THEN <<>> ELSE Head(seqs) \o Flatten(Tail(seqs))

\* The fragments one pass pushes, in push order.
PassFragments(pass, s) ==
    IF pass = 3
    THEN LET tj == ExecAll(3, s, 1)
         IN  Flatten([m \in 1..Len(tj) |->
                 SelectSeq(Captures(1, Slice(s, tj[m].open, tj[m].close)),
                           LooksLikeText)])
    ELSE IF pass = 7 THEN SelectSeq(Captures(7, s), HasMultipleWords)
    ELSE SelectSeq(Captures(pass, s), LooksLikeText)

\* textFragments after the seven passes.
AllFragments(s) == Flatten([pass \in 1..7 |-> PassFragments(pass, s)])

\* The chain of replace calls and the trim applied to the joined fragments.
CleanUpExtracted(t) ==
    LET r1 == ReplacePair(t, Backslash, 110, <<10>>)        \* \\n -> newline
        r2 == ReplacePair(r1, Backslash, 114, <<>>)         \* \\r -> ''
        r3 == ReplacePair(r2, Backslash, LParen, <<LParen>>)
        r4 == ReplacePair(r3, Backslash, RParen, <<RParen>>)
        r5 == RemoveChar(r4, Backslash)
    IN  Trim(CollapseSpace(r5))

IsSentenceEnd(c) == c \in {46, 33, 63}      \* [.!?]

RECURSIVE SplitSentencesFrom(_, _)
SplitSentencesFrom(t, from) ==
    LET seps == {j \in from..(Len(t) - 1) :
                    IsSentenceEnd(t[j]) /\ IsSpace(t[j + 1])}
    IN  IF seps = {} THEN <<Slice(t, from, Len(t))>>
        ELSE <<Slice(t, from, Min(seps) - 1)>>
             \o SplitSentencesFrom(t, SkipSpace(t, Min(seps) + 1))

\* t.split(/[.!?]\s+/)
SplitSentences(t) == SplitSentencesFrom(t, 1)

\* Array.from(new Set(items)): the first occurrence of each item, in order.
UniqueInOrder(items) ==
    LET firsts == {m \in 1..Len(items) : \A j \in 1..(m - 1) : items[j] # items[m]}
        Nth(n) == CHOOSE m \in firsts : Cardinality({j \in firsts : j < m}) = n - 1
    IN  [n \in 1..Cardinality(firsts) |-> items[Nth(n)]]

\* uniqueSentences.join('. ')
DeduplicateSentences(t) == Join(UniqueInOrder(SplitSentences(t)), <<46, Space>>)

MinExtractedLength == 10

\* ResultFor without the length check and the fallback: return extractedText.
ResultForUnchecked(txt) == txt

\* The value returned for the final extractedText.
ResultFor(txt) ==
    IF Len(txt) < MinExtractedLength THEN NoExtractableTextMsg
    ELSE IF txt # <<>> THEN txt ELSE UnableToExtractMsg

----------------------------------------------------------------------------
(* cleanText and splitTextIntoChunks (api/chat/route.ts)                   *)

\* [^\x20-\x7E\n\t]
IsNonAscii(c) == ~((c >= 32 /\ c <= 126) \/ c = 10 \/ c = 9)

\* cleanText(t)
CleanText(t) ==
    LET r1 == SelectSeq(t, LAMBDA c : c \notin {65533, 65534, 65535})
        r2 == [j \in 1..Len(r1) |-> IF IsNonAscii(r1[j]) THEN Space ELSE r1[j]]
    IN  Trim(CollapseSpace(r2))

RECURSIVE SplitOnBlankLinesFrom(_, _)
SplitOnBlankLinesFrom(t, from) ==
    LET seps == {j \in from..(Len(t) - 1) : t[j] = 10 /\ t[j + 1] = 10}
    IN  IF seps = {} THEN <<Slice(t, from, Len(t))>>
        ELSE LET after == {j \in Min(seps)..Len(t) : t[j] # 10}
             IN  <<Slice(t, from, Min(seps) - 1)>>
                 \o SplitOnBlankLinesFrom(t, IF after = {} THEN Len(t) + 1
                                             ELSE Min(after))

\* t.split(/\n{2,}/)
SplitOnBlankLines(t) == SplitOnBlankLinesFrom(t, 1)

\* The position a slice bound stands for in a string of length len: a
\* negative bound counts from the end, and the result is kept within 0..len.
RelativeIndex(bound, len) ==
    IF bound < 0 THEN (IF len + bound < 0 THEN 0 ELSE len + bound)
    ELSE IF bound > len THEN len ELSE bound

\* The position indexOf starts searching at: a negative fromIndex counts as 0.
FromIndex(from) == IF from < 0 THEN 0 ELSE from

\* The end (exclusive, 0-based) of the window that starts at index: the raw
\* cut-off index + size, moved to the next space when the cut-off lies inside
\* the section and a space follows it.
WindowEnd(section, idx, size) ==
    LET end == idx + size
    IN  IF end < Len(section)
        THEN LET nextSpace == IndexOf(section, Space, FromIndex(end) + 1) - 1
             IN  IF nextSpace > -1 THEN nextSpace ELSE end
        ELSE end

\* section.slice(idx, end).trim()
WindowChunk(section, idx, end) ==
    Trim(Slice(section, RelativeIndex(idx, Len(section)) + 1,
               RelativeIndex(end, Len(section))))

\* Advance with the overlap added instead of subtracted.
AdvancePastOverlap(idx, size, lap) == idx + (size + lap)

\* Advance by the whole window, the overlap forgotten.
AdvanceWithoutOverlap(idx, size, lap) == idx + size

\* Advance by one character, whatever the size and the overlap.
AdvanceByOne(idx, size, lap) == idx + 1

\* index += (chunkSize - overlap)
Advance(idx, size, lap) == idx + (size - lap)

RECURSIVE WindowChunksFrom(_, _, _, _)
\* The chunks the while loop pushes from window start idx on (lap < size).
WindowChunksFrom(section, idx, size, lap) ==
    IF idx >= Len(section) THEN <<>>
    ELSE LET chunk == WindowChunk(section, idx, WindowEnd(section, idx, size))
         IN  (IF chunk # <<>> THEN <<chunk>> ELSE <<>>)
             \o WindowChunksFrom(section, Advance(idx, size, lap), size, lap)

\* The chunks of one section.
SectionChunks(section, size, lap) ==
    IF Len(section) <= size
    THEN IF Trim(section) # <<>> THEN <<Trim(section)>> ELSE <<>>
    ELSE WindowChunksFrom(section, 0, size, lap)

\* splitTextIntoChunks(t, size, lap), for lap < size.
SplitTextIntoChunks(t, size, lap) ==
    LET secs == SplitOnBlankLines(CleanText(t))
    IN  Flatten([m \in 1..Len(secs) |-> SectionChunks(secs[m], size, lap)])

----------------------------------------------------------------------------
(* cosineSimilarity and findSimilarDocuments (api/chat/route.ts)           *)

RECURSIVE SumTo(_, _)
\* f[1] + ... + f[n]
SumTo(f, n) == IF n = 0 THEN 0 ELSE f[n] + SumTo(f, n - 1)

\* a.reduce((sum, val, i) => sum + val * a[i], 0): a multiplied with itself.
DotProductOfFirst(a, b) == SumTo([i \in 1..Len(a) |-> a[i] * a[i]], Len(a))

\* a.reduce((sum, val, i) => sum + val * b[i], 0)
DotProduct(a, b) == SumTo([i \in 1..Len(a) |-> a[i] * b[i]], Len(a))

\* The square of Math.sqrt(a.reduce((sum, val) => sum + val * val, 0))
NormSquared(a) == SumTo([i \in 1..Len(a) |-> a[i] * a[i]], Len(a))

\* dotProduct / (normA * normB), kept exact as the signed square
\* sign(dot) * dot^2 / (normA^2 * normB^2): x |-> sign(x) * x^2 is strictly
\* increasing, so two scores compare as their signed squares do. The vectors
\* are non-zero (the quotient is NaN otherwise), so den > 0.
CosineSimilarity(a, b) ==
    LET dot == DotProduct(a, b)
    IN  [num |-> (IF dot < 0 THEN -1 ELSE 1) * dot * dot,
         den |-> NormSquared(a) * NormSquared(b)]

\* The sign of y - x for two scores.
SignOfDifference(y, x) ==
    LET d == y.num * x.den - x.num * y.den
    IN  IF d > 0 THEN 1 ELSE IF d < 0 THEN -1 ELSE 0

\* The comparator with its operands swapped: (a, b) => a.score - b.score.
CompareAscending(a, b) == SignOfDifference(a, b)

\* The comparator (a, b) => b.score - a.score, as its sign.
CompareScores(a, b) == SignOfDifference(b, a)

\* Array.prototype.sort with CompareScores on items 1..n of scores, as a
\* sequence of positions. The sort is stable and the comparator is a
\* consistent order, so the result is the one sequence in which item j
\* stands before item i when the comparator puts it first (< 0) or when
\* they tie and j < i.
SortedPrefix(scores, n) ==
    LET place == [i \in 1..n |->
                    1 + Cardinality({j \in 1..n :
                          LET c == CompareScores(scores[j], scores[i])
                          IN  c < 0 \/ (c = 0 /\ j < i)})]
    IN  [p \in 1..n |-> CHOOSE i \in 1..n : place[i] = p]

\* items.slice(0, end): a negative end counts from the end of the array.
SliceTo(items, end) ==
    LET len == Len(items)
        to  == IF end < 0 THEN (IF len + end < 0 THEN 0 ELSE len + end)
               ELSE IF end > len THEN len ELSE end
    IN  Slice(items, 1, to)

\* The similarities computed by findSimilarDocuments.
SimilaritiesOf(embeddings, query) ==
    [i \in 1..Len(embeddings) |-> CosineSimilarity(query, embeddings[i])]

\* The documents findSimilarDocuments returns, as positions in docs.
TopK(scores, kk) == SliceTo(SortedPrefix(scores, Len(scores)), kk)

----------------------------------------------------------------------------
(* The arguments extractBasicPdfText is called with                        *)

MaxPieces == 3

\* What a PDF byte stream is built from: literals, markers, stray delimiters.
Pieces ==
    { <<40, 72, 101, 108, 108, 111, 32, 119, 111, 114, 108, 100, 41>>, \* (Hello world)
      <<40, 72, 105, 46, 41>>,                                         \* (Hi.)
      <<40, 83, 101, 101, 32, 116, 104, 105, 115, 46, 41>>,            \* (See this.)
      <<40, 97, 32, 98, 32, 99, 41>>,                                  \* (a b c)
      <<40, 1, 200, 41>>,                                              \* binary literal
      <<LParen>>, <<RParen>>, <<Space>>, <<93>>,                       \* ( ) space ]
      TjMarker, TJMarker \o <<91>>, TextMarker, ContentsMarker, BTMarker }

PdfByteStreams ==
    { Flatten(ps) : ps \in UNION { [1..n -> Pieces] : n \in 0..MaxPieces } }

\* The strings a caller can pass: the base64 of a byte stream, bare, as a
\* data URL, unpadded, or broken by white space; and strings atob rejects.
Base64Inputs ==
    { Btoa(b) : b \in PdfByteStreams }
    \cup { DataUrlPrefix \o Btoa(b) : b \in Pieces }
    \cup { SelectSeq(Btoa(b), LAMBDA c : c # 61) : b \in Pieces }
    \cup { <<10>> \o Btoa(b) \o <<Space>> : b \in Pieces }
    \cup { Btoa(b) \o <<33>> : b \in Pieces \cup {<<>>} }           \* ...!
    \cup { Btoa(b) \o <<65>> : b \in Pieces \cup {<<>>} }           \* length 4n+1

ChunkerIdle ==
    /\ text = <<>> /\ chunkSize = 0 /\ overlap = 0 /\ chPc = "idle"
    /\ sections = <<>> /\ sectionNo = 0 /\ index = 0 /\ chunks = <<>>
    /\ windows = <<>> /\ iterations = 0

RankerIdle ==
    /\ rkPc = "idle" /\ docEmbeddings = <<>> /\ queryEmbedding = <<>> /\ k = 0
    /\ similarities = <<>> /\ ranked = <<>>

ExtractorIdle ==
    /\ base64Data = <<>> /\ exPc = "idle" /\ decodedData = <<>>
    /\ textFragments = <<>> /\ extractedText = <<>> /\ exResult = <<>>

NoRequestsInFlight == inFlight = <<>> /\ docsArrays = <<>>

NoCallsResolved == lastIndex = <<>> /\ passNo = 0 /\ resolvedCalls = {}

\* No ChatInterface is mounted.
NoChatMounted ==
    /\ component = "" /\ uiFiles = <<>> /\ messages = <<>> /\ isProcessing = FALSE
    /\ error = "" /\ submitPc = "idle" /\ questionsSent = 0 /\ answersShown = 0

\* No PdfPreview is mounted.
NoPreviewMounted ==
    /\ pdfDocument = FALSE /\ loading = FALSE /\ previewError = FALSE
    /\ renderAttempts = 0 /\ effectDue = FALSE
    /\ renderCalls = <<>> /\ retryTimers = <<>> /\ attemptsMade = 0
    /\ callsOfRenderPage = 0

\* No response yet.
NoResponse == [status |-> 0, text |-> "", hasCitations |-> FALSE, citations |-> <<>>]

\* processingPromise is pending.
Pending == [state |-> "pending", value |-> NoResponse]

\* No request received; no API key, so no models.
RequestIdle ==
    /\ apiKey = FALSE /\ embeddingModel = FALSE /\ llm = FALSE
    /\ rqPc = "idle" /\ files = <<>> /\ question = <<>> /\ formReadable = FALSE
    /\ fileNo = 0 /\ docs = <<>> /\ relevantDocs = <<>>
    /\ processed = Pending /\ response = NoResponse /\ llmCalls = 0

InitExtract ==
    /\ NoChatMounted
    /\ NoPreviewMounted
    /\ NoCallsResolved
    /\ NoRequestsInFlight
    /\ ChunkerIdle
    /\ RankerIdle
    /\ RequestIdle
    /\ base64Data \in Base64Inputs
    /\ exPc = "call"
    /\ decodedData = <<>>
    /\ textFragments = <<>>
    /\ extractedText = <<>>
    /\ exResult = <<>>

\* The prefix is stripped and the rest decoded; when atob throws, the call
\* resolves with the decoding error.
DecodeBase64 ==
    /\ exPc = "call"
    /\ LET decoded == Atob(StripDataUrlPrefix(base64Data))
       IN  IF decoded.ok
           THEN /\ decodedData' = decoded.bytes
                /\ exPc' = "decoded"
                /\ exResult' = exResult
           ELSE /\ decodedData' = decodedData
                /\ exPc' = "resolved"
                /\ exResult' = ErrorDecodingMsg
    /\ UNCHANGED <<uiVars, pvVars, base64Data, textFragments, extractedText, ccVars, puVars, chVars, rkVars, rqVars>>

\* The seven passes over the decoded data.
CollectFragments ==
    /\ exPc = "decoded"
    /\ textFragments' = AllFragments(decodedData)
    /\ exPc' = "collected"
    /\ UNCHANGED <<uiVars, pvVars, base64Data, decodedData, extractedText, exResult, ccVars, puVars, chVars,
                   rkVars, rqVars>>

\* The fragments are joined, cleaned up and deduplicated, and the call
\* resolves.
ReturnExtractedText ==
    /\ exPc = "collected"
    /\ extractedText' =
          DeduplicateSentences(CleanUpExtracted(Join(textFragments, <<Space>>)))
    /\ exResult' = ResultFor(extractedText')
    /\ exPc' = "resolved"
    /\ UNCHANGED <<uiVars, pvVars, base64Data, decodedData, textFragments, ccVars, puVars, chVars, rkVars, rqVars>>

NextExtract ==
    \/ DecodeBase64
    \/ CollectFragments
    \/ ReturnExtractedText

SpecExtract == InitExtract /\ [][NextExtract]_vars

----------------------------------------------------------------------------
(* extractBasicPdfText called again and again, one pass per step           *)

\* Two /TJ arrays: innerTextRegex is used on one, then on the other.
TwoArrays ==
    TJMarker \o <<91, 40, 72, 101, 108, 108, 111, 32, 119, 111, 114, 108, 100, 41, 93>>
    \o <<Space>> \o TJMarker \o <<91, 40, 97, 32, 98, 32, 99, 41, 93>>

\* Literals with an escaped parenthesis, and the text they stand for.
EscapedLiterals ==
    { [literal |-> <<40, 72, 101, 108, 108, 111, 32, 92, 41, 32,
                     119, 111, 114, 108, 100, 41>>,           \* (Hello \) world)
       meant   |-> <<72, 101, 108, 108, 111, 32, 41, 32,
                     119, 111, 114, 108, 100>>],              \* Hello ) world
      [literal |-> <<40, 72, 101, 108, 108, 111, 32, 92, 40, 32,
                     119, 111, 114, 108, 100, 41>>,           \* (Hello \( world)
       meant   |-> <<72, 101, 108, 108, 111, 32, 40, 32,
                     119, 111, 114, 108, 100>>] }             \* Hello ( world

\* The arguments of the calls.
RepeatedInputs ==
    { Btoa(TwoArrays),
      Btoa(<<40, 72, 101, 108, 108, 111, 32, 119, 111, 114, 108, 100, 41,
             40, 97, 32, 98, 32, 99, 41>>),               \* (Hello world)(a b c)
      Btoa(BTMarker \o <<Space, 40, 72, 105, 46, 41>>),   \* BT (Hi.)
      DataUrlPrefix \o Btoa(TwoArrays),
      <<33>> }                                            \* atob throws
    \cup { Btoa(e.literal) : e \in EscapedLiterals }

\* The regular expressions of a call are literals of the function body:
\* each call evaluates them to new objects, lastIndex 0.
NewRegExps == [p \in 1..8 |-> 0]

\* A loop that stops with the cursor after its last match.
LastIndexAtLastMatch(ms) == IF ms = <<>> THEN 0 ELSE ms[Len(ms)].close

\* while ((match = regex.exec(s)) !== null): the exec that returns null
\* sets lastIndex to 0.
LastIndexAfterLoop(ms) == 0

RECURSIVE InnerFragments(_, _, _)
\* The inner loops of pass 3 over the /TJ matches tjs, innerTextRegex
\* standing at cursor: the fragments pushed and the cursor left.
InnerFragments(s, tjs, cursor) ==
    IF tjs = <<>> THEN [fragments |-> <<>>, lastIndex |-> cursor]
    ELSE LET tjContent == Slice(s, Head(tjs).open, Head(tjs).close)
             ms == ExecAll(1, tjContent, cursor + 1)
             found == SelectSeq([m \in 1..Len(ms) |-> Capture(tjContent, ms[m])],
                                LooksLikeText)
             rest == InnerFragments(s, Tail(tjs), LastIndexAfterLoop(ms))
         IN  [fragments |-> found \o rest.fragments, lastIndex |-> rest.lastIndex]

InitRepeated ==
    /\ NoChatMounted
    /\ NoPreviewMounted
    /\ NoRequestsInFlight
    /\ ChunkerIdle
    /\ RankerIdle
    /\ RequestIdle
    /\ base64Data \in RepeatedInputs
    /\ exPc = "call"
    /\ decodedData = <<>>
    /\ textFragments = <<>>
    /\ extractedText = <<>>
    /\ exResult = <<>>
    /\ lastIndex = NewRegExps
    /\ passNo = 1
    /\ resolvedCalls = {}

\* The function is called once more, after the call before it resolved: it
\* has no await, so a call runs to its end before another starts.
CallExtractBasicPdfText ==
    /\ exPc = "resolved"
    /\ resolvedCalls' = resolvedCalls \cup { <<base64Data, exResult>> }
    /\ base64Data' \in RepeatedInputs
    /\ exPc' = "call"
    /\ decodedData' = <<>>
    /\ textFragments' = <<>>
    /\ extractedText' = <<>>
    /\ exResult' = <<>>
    /\ lastIndex' = NewRegExps
    /\ passNo' = 1
    /\ UNCHANGED <<uiVars, pvVars, chVars, rkVars, rqVars, ccVars>>

\* One of the seven passes: its exec loop from the regular expression's
\* cursor to the exec that returns null.
RunPass ==
    /\ exPc = "decoded"
    /\ LET ms == ExecAll(passNo, decodedData, lastIndex[passNo] + 1)
           inner == InnerFragments(decodedData, ms, lastIndex[8])
           caps == [m \in 1..Len(ms) |-> Capture(decodedData, ms[m])]
       IN  /\ textFragments' = textFragments \o
                 ( IF passNo = 3 THEN inner.fragments
                   ELSE IF passNo = 7 THEN SelectSeq(caps, HasMultipleWords)
                   ELSE SelectSeq(caps, LooksLikeText) )
           /\ lastIndex' = [lastIndex EXCEPT
                 ![passNo] = LastIndexAfterLoop(ms),
                 ![8] = IF passNo = 3 THEN inner.lastIndex ELSE @]
    /\ passNo' = IF passNo < 7 THEN passNo + 1 ELSE passNo
    /\ exPc' = IF passNo < 7 THEN "decoded" ELSE "collected"
    /\ UNCHANGED <<uiVars, pvVars, base64Data, decodedData, extractedText, exResult, resolvedCalls,
                   chVars, rkVars, rqVars, ccVars>>

NextRepeated ==
    \/ CallExtractBasicPdfText
    \/ DecodeBase64
    \/ RunPass
    \/ ReturnExtractedText

SpecRepeated == InitRepeated /\ [][NextRepeated]_vars

----------------------------------------------------------------------------
(* Properties of extractBasicPdfText                                       *)

\* The number of positions of t at which the string f occurs.
Occurrences(f, t) == Cardinality({i \in 1..Len(t) : StartsWithAt(t, f, i)})

\* The number of items of a sequence equal to x.
CountOf(x, items) == Cardinality({m \in 1..Len(items) : items[m] = x})

\* C2: every call resolves, with a non-empty string; the string is the fixed
\* 'Error decoding PDF data' when atob rejects the argument, and the fixed
\* "doesn't contain easily extractable text" placeholder whenever the
\* extracted text is shorter than 10 characters.
C2_AlwaysNonEmptyResult ==
    /\ exPc \in {"call", "decoded", "collected", "resolved"}
    /\ exPc = "resolved" =>
          /\ exResult # <<>>
          /\ IF ~Atob(StripDataUrlPrefix(base64Data)).ok
             THEN exResult = ErrorDecodingMsg
             ELSE /\ Len(extractedText) < 10 => exResult = NoExtractableTextMsg
                  /\ Len(extractedText) >= 10 => exResult = extractedText

\* A decodable argument whose literals give less than 10 characters of text.
C2_Witness ==
    /\ exPc = "resolved"
    /\ Atob(StripDataUrlPrefix(base64Data)).ok
    /\ textFragments # <<>>
    /\ Len(extractedText) < 10
    /\ exResult = NoExtractableTextMsg

\* The literals that more than one pass pushed, each pass once.
CaughtByManyPasses(s) ==
    { f \in UNION { {PassFragments(pass, s)[m] : m \in 1..Len(PassFragments(pass, s))}
                    : pass \in 1..7 } :
        /\ \A pass \in 1..7 : CountOf(f, PassFragments(pass, s)) <= 1
        /\ Cardinality({pass \in 1..7 : CountOf(f, PassFragments(pass, s)) = 1}) > 1 }

\* C3: a literal caught by more than one pass appears exactly once in the
\* final extracted text.
C3_LiteralEmittedOnce ==
    exPc = "resolved" =>
        \A f \in CaughtByManyPasses(decodedData) :
            Occurrences(CleanUpExtracted(f), extractedText) = 1

----------------------------------------------------------------------------
(* splitTextIntoChunks, one loop iteration per step                        *)

MaxTextLen == 5
MaxChunkSize == 3

\* a, space, newline, U+FFFD
TextAlphabet == {97, 32, 10, 65533}

Texts == UNION { [1..n -> TextAlphabet] : n \in 0..MaxTextLen }

InitChunk ==
    /\ NoChatMounted
    /\ NoPreviewMounted
    /\ NoCallsResolved
    /\ NoRequestsInFlight
    /\ ExtractorIdle
    /\ ChunkerIdle
    /\ RankerIdle
    /\ RequestIdle

\* splitTextIntoChunks(text, chunkSize, overlap) is called with
\* 0 <= overlap < chunkSize; the text is cleaned and split into sections.
CallSplitTextIntoChunks ==
    /\ chPc = "idle"
    /\ text' \in Texts
    /\ chunkSize' \in 1..MaxChunkSize
    /\ overlap' \in 0..(chunkSize' - 1)
    /\ sections' = SplitOnBlankLines(CleanText(text'))
    /\ sectionNo' = 1
    /\ chPc' = "sections"
    /\ UNCHANGED <<uiVars, pvVars, index, chunks, windows, iterations, ccVars, puVars, exVars, rkVars, rqVars>>

\* A section within chunkSize: pushed whole (trimmed) unless it is blank.
ShortSection ==
    /\ chPc = "sections"
    /\ sectionNo <= Len(sections)
    /\ Len(sections[sectionNo]) <= chunkSize
    /\ LET section == sections[sectionNo]
           pushed  == Trim(section) # <<>>
       IN  /\ chunks' = IF pushed THEN Append(chunks, Trim(section)) ELSE chunks
           /\ windows' = Append(windows, [section |-> sectionNo, start |-> 0,
                                          end |-> Len(section), pushed |-> pushed])
    /\ sectionNo' = sectionNo + 1
    /\ UNCHANGED <<uiVars, pvVars, text, chunkSize, overlap, chPc, sections, index, iterations, ccVars, puVars, exVars, rkVars, rqVars>>

\* A longer section: let index = 0 and enter the while loop.
EnterWindowLoop ==
    /\ chPc = "sections"
    /\ sectionNo <= Len(sections)
    /\ Len(sections[sectionNo]) > chunkSize
    /\ index' = 0
    /\ iterations' = 0
    /\ chPc' = "window"
    /\ UNCHANGED <<uiVars, pvVars, text, chunkSize, overlap, sections, sectionNo, chunks, windows, ccVars, puVars, exVars, rkVars, rqVars>>

\* One iteration of while (index < section.length).
SlideWindow ==
    /\ chPc = "window"
    /\ index < Len(sections[sectionNo])
    /\ LET section == sections[sectionNo]
           end     == WindowEnd(section, index, chunkSize)
           chunk   == WindowChunk(section, index, end)
       IN  /\ chunks' = IF chunk # <<>> THEN Append(chunks, chunk) ELSE chunks
           /\ windows' = Append(windows,
                  [section |-> sectionNo, start |-> index,
                   end |-> IF end > Len(section) THEN Len(section) ELSE end,
                   pushed |-> chunk # <<>>])
    /\ index' = Advance(index, chunkSize, overlap)
    /\ iterations' = iterations + 1
    /\ UNCHANGED <<uiVars, pvVars, text, chunkSize, overlap, chPc, sections, sectionNo, ccVars, puVars, exVars, rkVars, rqVars>>

\* The while condition fails: on to the next section.
LeaveWindowLoop ==
    /\ chPc = "window"
    /\ index >= Len(sections[sectionNo])
    /\ sectionNo' = sectionNo + 1
    /\ chPc' = "sections"
    /\ UNCHANGED <<uiVars, pvVars, text, chunkSize, overlap, sections, index, chunks, windows,
                   iterations, ccVars, puVars, exVars, rkVars, rqVars>>

\* return chunks
ReturnChunks ==
    /\ chPc = "sections"
    /\ sectionNo > Len(sections)
    /\ chPc' = "done"
    /\ UNCHANGED <<uiVars, pvVars, text, chunkSize, overlap, sections, sectionNo, index, chunks,
                   windows, iterations, ccVars, puVars, exVars, rkVars, rqVars>>

NextChunk ==
    \/ CallSplitTextIntoChunks
    \/ ShortSection
    \/ EnterWindowLoop
    \/ SlideWindow
    \/ LeaveWindowLoop
    \/ ReturnChunks

SpecChunk == InitChunk /\ [][NextChunk]_vars

\* The call runs to completion: the loops are synchronous code.
SpecChunkFair == SpecChunk /\ WF_vars(NextChunk)

\* How far above chunkSize the overlap of a call is taken.
MaxExcess == 1

\* Iterations of one while loop that are followed.
MaxIterations == 8

\* splitTextIntoChunks(text, chunkSize, overlap) called with any overlap >= 0:
\* the function does not look at its overlap argument before the loop.
CallWithAnyOverlap ==
    /\ chPc = "idle"
    /\ text' \in Texts
    /\ chunkSize' \in 1..MaxChunkSize
    /\ overlap' \in 0..(chunkSize' + MaxExcess)
    /\ sections' = SplitOnBlankLines(CleanText(text'))
    /\ sectionNo' = 1
    /\ chPc' = "sections"
    /\ UNCHANGED <<uiVars, pvVars, index, chunks, windows, iterations, ccVars, puVars, exVars, rkVars, rqVars>>

\* One iteration of the while loop, followed up to MaxIterations.
SlideWindowAgain ==
    /\ iterations < MaxIterations
    /\ SlideWindow

NextAnyOverlap ==
    \/ CallWithAnyOverlap
    \/ ShortSection
    \/ EnterWindowLoop
    \/ SlideWindowAgain
    \/ LeaveWindowLoop
    \/ ReturnChunks

SpecAnyOverlap == InitChunk /\ [][NextAnyOverlap]_vars

\* The call runs on: the loops are synchronous code.
SpecAnyOverlapFair == SpecAnyOverlap /\ WF_vars(NextAnyOverlap)

----------------------------------------------------------------------------
(* findSimilarDocuments, one call per step                                 *)

MaxDocs == 3

\* The embeddings: the non-zero vectors with coordinates -1, 0, 1. A sentence
\* embedding is never the zero vector, for which cosineSimilarity is NaN.
Vectors == { v \in [1..2 -> {-1, 0, 1}] : v # <<0, 0>> }

InitRank ==
    /\ NoChatMounted
    /\ NoPreviewMounted
    /\ NoCallsResolved
    /\ NoRequestsInFlight
    /\ ExtractorIdle
    /\ ChunkerIdle
    /\ RankerIdle
    /\ RequestIdle

\* findSimilarDocuments(docs, query, embeddingModel, k) with both embedding
\* calls answering: the similarities, the sort, the slice.
FindSimilarDocuments ==
    /\ rkPc = "idle"
    /\ docEmbeddings' \in UNION { [1..n -> Vectors] : n \in 0..MaxDocs }
    /\ queryEmbedding' \in Vectors
    /\ k' \in -2..(MaxDocs + 1)
    /\ similarities' = SimilaritiesOf(docEmbeddings', queryEmbedding')
    /\ ranked' = TopK(similarities', k')
    /\ rkPc' = "returned"
    /\ UNCHANGED <<uiVars, pvVars, ccVars, puVars, exVars, chVars, rqVars>>

NextRank == FindSimilarDocuments

SpecRank == InitRank /\ [][NextRank]_vars

----------------------------------------------------------------------------
(* POST /api/chat (api/chat/route.ts): the handler's pure parts            *)

\* The texts of the responses.
ServiceUnavailableText ==
    "The document analysis service is currently unavailable. Please try again later."
UploadPromptText == "Please upload a document to analyze"
DifficultiesReadingText ==
    "I encountered difficulties reading the PDF file. It might be scanned, protected, or corrupted. Please try another file or format."
NoTextContentText ==
    "I couldn't extract any text content from the file. It might be a scanned document, an image, or contain only non-textual content."
NoUsefulContentText ==
    "I couldn't extract useful content from the documents. Please try with different files."
AnalysisErrorText ==
    "I encountered an error while analyzing the documents. This might be due to a temporary issue with the analysis service. Please try again later with smaller files."
ApologyText ==
    "I apologize, but I encountered an error while processing your question. Please try asking in a different way or with a simpler question."
TimedOutText ==
    "The request took too long to process. Please try with smaller documents or a simpler question."
SomethingWentWrongText ==
    "Something went wrong while processing your request. Please try again later with smaller documents."

NameTxt == <<97, 46, 116, 120, 116>>       \* a.txt
NamePdf == <<98, 46, 80, 68, 70>>          \* b.PDF
Unnamed == <<>>                            \* a part with filename=""

\* `${file.name}` for the file names of the requests
NameInTemplate(name) ==
    CASE name = NameTxt -> "a.txt"
      [] name = NamePdf -> "b.PDF"
      [] name = Unnamed -> ""

FileErrorText(name) ==
    "I encountered an error processing the file " \o NameInTemplate(name)
        \o ". Please try again with a smaller or different file."

DefaultQuestion ==      \* What is this document about?
    <<87, 104, 97, 116, 32, 105, 115, 32, 116, 104, 105, 115, 32, 100, 111, 99,
      117, 109, 101, 110, 116, 32, 97, 98, 111, 117, 116, 63>>
DefaultSource == <<100, 111, 99, 117, 109, 101, 110, 116>>     \* document
PdfSuffix == <<46, 112, 100, 102>>                              \* .pdf
Ellipsis == <<46, 46, 46>>                                      \* ...

PipelineChunkSize == 120
PipelineOverlap == 15
maxChunks == 50
PipelineK == 2
CitationLength == 150

\* A response with an error status.
ErrorStatusResponse(t) ==
    [status |-> 500, text |-> t, hasCitations |-> FALSE, citations |-> <<>>]

\* NextResponse.json({ text }, { status: 200 })
TextResponse(t) ==
    [status |-> 200, text |-> t, hasCitations |-> FALSE, citations |-> <<>>]

\* NextResponse.json({ text, citations }): the status defaults to 200
CitedResponse(t, cs) ==
    [status |-> 200, text |-> t, hasCitations |-> TRUE, citations |-> cs]

ToLowerCase(s) ==
    [j \in 1..Len(s) |-> IF s[j] \in 65..90 THEN s[j] + 32 ELSE s[j]]

EndsWith(s, suffix) ==
    /\ Len(s) >= Len(suffix)
    /\ SubSeq(s, Len(s) - Len(suffix) + 1, Len(s)) = suffix

IsPdf(file) == EndsWith(ToLowerCase(file.name), PdfSuffix)

\* The text taken from a readable file: what pdf-parse gave, else the bytes.
TextReadFrom(file) ==
    IF IsPdf(file) /\ file.pdfParse.ok THEN file.pdfParse.text ELSE file.content

\* ExtractFileText without the checks for blank text.
ExtractFileTextUnchecked(file) ==
    IF ~file.readable
    THEN [returns |-> FileErrorText(file.name), text |-> <<>>]
    ELSE [returns |-> "", text |-> TextReadFrom(file)]

\* The text read from a file, or the response the handler returns instead.
\* file.arrayBuffer() rejecting is caught by the catch of the loop body.
\* pdf-parse rejecting, timing out after 20 s, or Buffer being absent all end
\* in the fallback to the bytes read as text.
ExtractFileText(file) ==
    LET raw == [returns |-> "", text |-> file.content]
        got == IF ~file.readable
               THEN [returns |-> FileErrorText(file.name), text |-> <<>>]
               ELSE IF ~IsPdf(file) THEN raw
               ELSE IF file.pdfParse.ok
                    THEN [returns |-> "", text |-> file.pdfParse.text]
               ELSE IF Trim(file.content) = <<>>
                    THEN [returns |-> DifficultiesReadingText, text |-> <<>>]
               ELSE raw
    IN  IF got.returns = "" /\ Trim(got.text) = <<>>
        THEN [returns |-> NoTextContentText, text |-> <<>>]
        ELSE got

\* The documents of a file with the page taken from the 1-based position.
DocumentsOfPagedFromOne(file, txt) ==
    LET allChunks == SplitTextIntoChunks(CleanText(txt), PipelineChunkSize,
                                         PipelineOverlap)
        limitedChunks == SliceTo(allChunks, maxChunks)
        made == [j \in 1..Len(limitedChunks) |->
                    [pageContent |-> limitedChunks[j],
                     metadata |-> [source |-> file.name,
                                   page |-> (j \div 2) + 1]]]
    IN  SelectSeq(made, LAMBDA d : Trim(d.pageContent) # <<>>)

\* The documents pushed for a file whose text was read.
DocumentsOf(file, txt) ==
    LET allChunks == SplitTextIntoChunks(CleanText(txt), PipelineChunkSize,
                                         PipelineOverlap)
        limitedChunks == SliceTo(allChunks, maxChunks)
        made == [j \in 1..Len(limitedChunks) |->
                    [pageContent |-> limitedChunks[j],
                     metadata |-> [source |-> file.name,
                                   page |-> ((j - 1) \div 2) + 1]]]
    IN  SelectSeq(made, LAMBDA d : Trim(d.pageContent) # <<>>)

\* s.substring(0, end)
Substring(s, end) == SubSeq(s, 1, Min({end, Len(s)}))

\* ({ text, source, page }) of one ranked document
CitationOf(doc) ==
    [text |-> Substring(CleanText(doc.pageContent), CitationLength) \o Ellipsis,
     source |-> IF doc.metadata.source # <<>> THEN doc.metadata.source
                ELSE DefaultSource,
     page |-> IF doc.metadata.page # 0 THEN doc.metadata.page ELSE 1]

\* Only the first ranked document is cited.
CitationsOfFirst(relevant) ==
    [j \in 1..Min({1, Len(relevant)}) |-> CitationOf(relevant[j])]

\* relevantDocs.map(doc => ({ text, source, page }))
CitationsOf(relevant) == [j \in 1..Len(relevant) |-> CitationOf(relevant[j])]

----------------------------------------------------------------------------
(* POST /api/chat: one request, one step per await                         *)

MaxFiles == 2

Word(n) == [j \in 1..n |-> 97]

BlankText == <<Space, 10>>
ShortText == Word(5)
\* one word longer than a citation, then a short one: chunks of 200 and 99
LongWordText == Word(200) \o <<Space>> \o Word(3)
\* three words of 100: chunks of 201, 120 and 92
ThreeChunkText == Word(100) \o <<Space>> \o Word(100) \o <<Space>> \o Word(100)
\* one chunk of exactly 150 characters
ExactText == Word(150)

NotParsed == [ok |-> FALSE, text |-> <<>>]
Parsed(t) == [ok |-> TRUE, text |-> t]

Upload(name, content, parse) ==
    [name |-> name, content |-> content, pdfParse |-> parse, readable |-> TRUE]

\* A file whose arrayBuffer() rejects.
Unreadable(name) ==
    [name |-> name, content |-> <<>>, pdfParse |-> NotParsed, readable |-> FALSE]

\* The files a request carries.
Uploads ==
    { Upload(NameTxt, ShortText, NotParsed),
      Upload(NameTxt, LongWordText, NotParsed),
      Upload(NameTxt, BlankText, NotParsed),
      Upload(NameTxt, <<233, 65533>>, NotParsed),      \* e-acute, U+FFFD
      Upload(Unnamed, ThreeChunkText, NotParsed),
      Upload(NamePdf, BlankText, Parsed(ExactText)),
      Upload(NamePdf, ShortText, Parsed(BlankText)),
      Upload(NamePdf, ShortText, NotParsed),
      Upload(NamePdf, BlankText, NotParsed),
      Unreadable(NameTxt) }

FileLists == UNION { [1..n -> Uploads] : n \in 0..MaxFiles }

Questions == { <<>>, <<119, 104, 121>> }      \* none, why

\* An embedding model is a function of the text: here of its length's
\* residue. Equal texts have equal embeddings.
EmbeddingClasses == 4
EmbeddingVectors == { <<1, 0>>, <<0, 1>> }
EmbeddingFunctions == [0..(EmbeddingClasses - 1) -> EmbeddingVectors]
Embed(f, t) == f[Len(t) % EmbeddingClasses]

Answers == { "An answer." }

\* The module is loaded: without the key no model is built; a constructor
\* that throws leaves the models after it null.
InitChat ==
    /\ NoChatMounted
    /\ NoPreviewMounted
    /\ NoCallsResolved
    /\ NoRequestsInFlight
    /\ ExtractorIdle
    /\ ChunkerIdle
    /\ RankerIdle
    /\ apiKey \in BOOLEAN
    /\ embeddingModel \in {apiKey, FALSE}
    /\ llm \in {embeddingModel, FALSE}
    /\ rqPc = "idle" /\ files = <<>> /\ question = <<>> /\ formReadable = FALSE
    /\ fileNo = 0 /\ docs = <<>> /\ relevantDocs = <<>>
    /\ processed = Pending /\ response = NoResponse /\ llmCalls = 0

\* A processing result that replaces whatever POST has returned.
FulfilOverwriting(r) ==
    /\ rqPc' = "settled"
    /\ processed' = [state |-> "fulfilled", value |-> r]
    /\ response' = r

\* processingPromise fulfils with r; POST returns it unless the timeout won.
Fulfil(r) ==
    /\ rqPc' = "settled"
    /\ processed' = [state |-> "fulfilled", value |-> r]
    /\ response' = IF response = NoResponse THEN r ELSE response

\* processingPromise rejects; POST's catch answers unless the timeout won.
Reject ==
    /\ rqPc' = "settled"
    /\ processed' = [state |-> "rejected", value |-> NoResponse]
    /\ response' = IF response = NoResponse
                   THEN TextResponse(SomethingWentWrongText) ELSE response

\* POST is called with a request whose files are one of lists: the
\* configuration check, then the timer and the processing promise are
\* started.
ReceiveRequest(lists) ==
    /\ rqPc = "idle"
    /\ files' \in lists
    /\ question' \in Questions
    /\ formReadable' \in BOOLEAN
    /\ IF ~apiKey \/ ~embeddingModel \/ ~llm
       THEN /\ rqPc' = "refused"
            /\ response' = TextResponse(ServiceUnavailableText)
       ELSE /\ rqPc' = "formData"
            /\ response' = response
    /\ UNCHANGED <<uiVars, pvVars, apiKey, embeddingModel, llm, llmCalls, fileNo, docs, relevantDocs,
                   processed, ccVars, puVars, exVars, chVars, rkVars>>

POST == ReceiveRequest(FileLists)

\* await req.formData() settles.
ReadFormData ==
    /\ rqPc = "formData"
    /\ IF ~formReadable THEN Reject /\ fileNo' = fileNo
       ELSE IF files = <<>>
            THEN Fulfil(TextResponse(UploadPromptText)) /\ fileNo' = fileNo
       ELSE /\ rqPc' = "file"
            /\ fileNo' = 1
            /\ UNCHANGED <<processed, response>>
    /\ UNCHANGED <<uiVars, pvVars, apiKey, embeddingModel, llm, llmCalls, files, question, formReadable,
                   docs, relevantDocs, ccVars, puVars, exVars, chVars, rkVars>>

\* The for loop left after its first iteration: the documents of the first
\* file alone go on to the ranking.
ProcessFirstFileOnly ==
    /\ rqPc = "file"
    /\ LET file == files[fileNo]
           got == ExtractFileText(file)
           made == docs \o DocumentsOf(file, got.text)
       IN  IF got.returns # ""
           THEN Fulfil(TextResponse(got.returns)) /\ UNCHANGED <<fileNo, docs>>
           ELSE /\ docs' = made
                /\ fileNo' = fileNo
                /\ IF made = <<>>
                   THEN Fulfil(TextResponse(NoUsefulContentText))
                   ELSE /\ rqPc' = "rank"
                        /\ UNCHANGED <<processed, response>>
    /\ UNCHANGED <<uiVars, pvVars, apiKey, embeddingModel, llm, llmCalls, files, question, formReadable,
                   relevantDocs, ccVars, puVars, exVars, chVars, rkVars>>

\* One iteration of the for loop over files, and after the last one the
\* check that some document was made.
ProcessFile ==
    /\ rqPc = "file"
    /\ LET file == files[fileNo]
           got == ExtractFileText(file)
           made == docs \o DocumentsOf(file, got.text)
       IN  IF got.returns # ""
           THEN Fulfil(TextResponse(got.returns)) /\ UNCHANGED <<fileNo, docs>>
           ELSE /\ docs' = made
                /\ IF fileNo < Len(files)
                   THEN /\ fileNo' = fileNo + 1
                        /\ UNCHANGED <<rqPc, processed, response>>
                   ELSE /\ fileNo' = fileNo
                        /\ IF made = <<>>
                           THEN Fulfil(TextResponse(NoUsefulContentText))
                           ELSE /\ rqPc' = "rank"
                                /\ UNCHANGED <<processed, response>>
    /\ UNCHANGED <<uiVars, pvVars, apiKey, embeddingModel, llm, llmCalls, files, question, formReadable,
                   relevantDocs, ccVars, puVars, exVars, chVars, rkVars>>

\* The question findSimilarDocuments is called with.
QuestionAsked == IF question # <<>> THEN question ELSE DefaultQuestion

\* findSimilarDocuments(docs, question, embeddingModel, 2) is called and
\* embedDocuments answers.
EmbedDocuments ==
    /\ rqPc = "rank"
    /\ \E f \in EmbeddingFunctions :
          docEmbeddings' = [j \in 1..Len(docs) |-> Embed(f, docs[j].pageContent)]
    /\ k' = PipelineK
    /\ rkPc' = "embedQuery"
    /\ rqPc' = "embedQuery"
    /\ UNCHANGED <<uiVars, pvVars, apiKey, embeddingModel, llm, llmCalls, files, question,
                   formReadable, fileNo, docs, relevantDocs, processed, response,
                   queryEmbedding, similarities, ranked, ccVars, puVars, exVars, chVars>>

\* embedQuery answers, with the same embedding model: the similarities, the
\* sort and the slice; findSimilarDocuments returns, and the handler builds
\* the prompt and calls llm.predict.
RankDocuments ==
    /\ rqPc = "embedQuery"
    /\ \E f \in EmbeddingFunctions :
          /\ docEmbeddings = [j \in 1..Len(docs) |-> Embed(f, docs[j].pageContent)]
          /\ queryEmbedding' = Embed(f, CleanText(QuestionAsked))
    /\ similarities' = SimilaritiesOf(docEmbeddings, queryEmbedding')
    /\ ranked' = TopK(similarities', k)
    /\ rkPc' = "returned"
    /\ relevantDocs' = [j \in 1..Len(ranked') |-> docs[ranked'[j]]]
    /\ llmCalls' = llmCalls + 1
    /\ rqPc' = "generate"
    /\ UNCHANGED <<uiVars, pvVars, apiKey, embeddingModel, llm, files, question, formReadable,
                   fileNo, docs, processed, response, docEmbeddings, k,
                   ccVars, puVars, exVars, chVars>>

\* An embedding call raises and the handler goes on with the first k
\* documents, unranked.
RankingFailsOpen ==
    /\ rqPc \in {"rank", "embedQuery"}
    /\ rkPc' = "threw"
    /\ relevantDocs' = SliceTo(docs, PipelineK)
    /\ llmCalls' = llmCalls + 1
    /\ rqPc' = "generate"
    /\ UNCHANGED <<uiVars, pvVars, apiKey, embeddingModel, llm, files, question, formReadable,
                   fileNo, docs, processed, response, ccVars, puVars, exVars, chVars,
                   docEmbeddings, queryEmbedding, k, similarities, ranked>>

\* embedDocuments or embedQuery raises: findSimilarDocuments rethrows and the
\* handler returns the analysis error.
RankingFails ==
    /\ rqPc \in {"rank", "embedQuery"}
    /\ rkPc' = "threw"
    /\ Fulfil(TextResponse(AnalysisErrorText))
    /\ UNCHANGED <<uiVars, pvVars, apiKey, embeddingModel, llm, llmCalls, files, question,
                   formReadable, fileNo, docs, relevantDocs, ccVars, puVars, exVars, chVars,
                   docEmbeddings, queryEmbedding, k, similarities, ranked>>

\* llm.predict fails and the apology is returned without the citations.
GenerateAnswerDroppingCitations ==
    /\ rqPc = "generate"
    /\ \E answer \in Answers \cup {ApologyText} :
          Fulfil(IF answer = ApologyText THEN TextResponse(ApologyText)
                 ELSE CitedResponse(answer, CitationsOf(relevantDocs)))
    /\ UNCHANGED <<uiVars, pvVars, apiKey, embeddingModel, llm, llmCalls, files, question, formReadable,
                   fileNo, docs, relevantDocs, ccVars, puVars, exVars, chVars, rkVars>>

\* llm.predict raced against 25 s: an answer, or the apology when it
\* rejects or the timer wins; then the response with its citations.
GenerateAnswer ==
    /\ rqPc = "generate"
    /\ \E answer \in Answers \cup {ApologyText} :
          Fulfil(CitedResponse(answer, CitationsOf(relevantDocs)))
    /\ UNCHANGED <<uiVars, pvVars, apiKey, embeddingModel, llm, llmCalls, files, question, formReadable,
                   fileNo, docs, relevantDocs, ccVars, puVars, exVars, chVars, rkVars>>

\* The 55 s timer fires while processingPromise is pending: POST answers
\* from its catch, and the processing goes on unobserved.
RequestTimesOut ==
    /\ rqPc \in {"formData", "file", "rank", "embedQuery", "generate"}
    /\ response = NoResponse
    /\ response' = TextResponse(TimedOutText)
    /\ UNCHANGED <<uiVars, pvVars, apiKey, embeddingModel, llm, llmCalls, rqPc, files, question,
                   formReadable, fileNo, docs, relevantDocs, processed,
                   ccVars, puVars, exVars, chVars, rkVars>>

NextChat ==
    \/ POST
    \/ ReadFormData
    \/ ProcessFile
    \/ EmbedDocuments
    \/ RankDocuments
    \/ RankingFails
    \/ GenerateAnswer
    \/ RequestTimesOut

SpecChat == InitChat /\ [][NextChat]_vars

\* The 55 s timer fires unless POST has returned.
SpecChatFair == SpecChat /\ WF_vars(RequestTimesOut)

----------------------------------------------------------------------------
(* POST /api/chat: requests with files of many chunks                      *)

\* A text of one word that the window loop cuts into maxChunks + 1 chunks.
ManyChunksText == Word(maxChunks * (PipelineChunkSize - PipelineOverlap) + 1)

LongFileLists ==
    { <<Upload(NamePdf, BlankText, Parsed(ManyChunksText))>>,
      <<Upload(NamePdf, BlankText, Parsed(ManyChunksText)),
        Upload(NameTxt, ShortText, NotParsed)>>,
      <<Upload(NameTxt, ShortText, NotParsed), Upload(NameTxt, ExactText, NotParsed)>> }

POSTOfLongFiles == ReceiveRequest(LongFileLists)

NextLongFiles ==
    \/ POSTOfLongFiles
    \/ ReadFormData
    \/ ProcessFile
    \/ EmbedDocuments
    \/ RankDocuments
    \/ RankingFails
    \/ GenerateAnswer
    \/ RequestTimesOut

SpecLongFiles == InitChat /\ [][NextLongFiles]_vars

----------------------------------------------------------------------------
(* POST /api/chat: two requests in flight, their awaits interleaved        *)

RequestIds == { "A", "B" }

\* Every call of the processing closure declares its own docs array.
SharedDocsArray(r) == "A"
DocsArrayOf(r) == r

\* What the two clients upload: A text files named a.txt, B PDFs named b.PDF.
FileListsOf(r) ==
    IF r = "A"
    THEN { <<Upload(NameTxt, ThreeChunkText, NotParsed)>>,
           <<Upload(NameTxt, ShortText, NotParsed),
             Upload(NameTxt, LongWordText, NotParsed)>>,
           <<Upload(NameTxt, ShortText, NotParsed), Unreadable(NameTxt)>> }
    ELSE { <<Upload(NamePdf, BlankText, Parsed(ExactText))>>,
           <<Upload(NamePdf, ShortText, NotParsed),
             Upload(NamePdf, BlankText, Parsed(LongWordText))>>,
           <<Upload(NamePdf, ShortText, NotParsed),
             Upload(NamePdf, BlankText, NotParsed)>>,
           <<>> }

\* A asks why; B sends no question.
QuestionOf(r) == IF r = "A" THEN <<119, 104, 121>> ELSE <<>>

\* The locals of a POST call that has not been made.
NotCalled ==
    [pc |-> "idle", files |-> <<>>, question |-> <<>>, fileNo |-> 0,
     relevantDocs |-> <<>>,
     processed |-> Pending, response |-> NoResponse]

InitConcurrent ==
    /\ NoChatMounted
    /\ NoPreviewMounted
    /\ NoCallsResolved
    /\ ExtractorIdle
    /\ ChunkerIdle
    /\ RankerIdle
    /\ apiKey \in BOOLEAN
    /\ embeddingModel \in {apiKey, FALSE}
    /\ llm \in {embeddingModel, FALSE}
    /\ rqPc = "idle" /\ files = <<>> /\ question = <<>> /\ formReadable = FALSE
    /\ fileNo = 0 /\ docs = <<>> /\ relevantDocs = <<>>
    /\ processed = Pending /\ response = NoResponse /\ llmCalls = 0
    /\ inFlight = [r \in RequestIds |-> NotCalled]
    /\ docsArrays = [r \in RequestIds |-> <<>>]

\* Request r's processingPromise fulfils with res.
FulfilIn(r, res) ==
    inFlight' = [inFlight EXCEPT
        ![r].pc = "settled",
        ![r].processed = [state |-> "fulfilled", value |-> res],
        ![r].response = IF @ = NoResponse THEN res ELSE @]

\* POST is called for request r.
ReceivePOST(r) ==
    /\ inFlight[r].pc = "idle"
    /\ \E fl \in FileListsOf(r) :
          inFlight' = [inFlight EXCEPT
              ![r].files = fl,
              ![r].question = QuestionOf(r),
              ![r].pc = IF ~apiKey \/ ~embeddingModel \/ ~llm
                        THEN "refused" ELSE "formData",
              ![r].response = IF ~apiKey \/ ~embeddingModel \/ ~llm
                              THEN TextResponse(ServiceUnavailableText) ELSE @]
    /\ UNCHANGED <<uiVars, pvVars, docsArrays, puVars, exVars, chVars, rkVars, rqVars>>

\* await req.formData() settles in request r.
ReadFormDataIn(r) ==
    /\ inFlight[r].pc = "formData"
    /\ IF inFlight[r].files = <<>>
       THEN FulfilIn(r, TextResponse(UploadPromptText))
       ELSE inFlight' = [inFlight EXCEPT ![r].pc = "file", ![r].fileNo = 1]
    /\ UNCHANGED <<uiVars, pvVars, docsArrays, puVars, exVars, chVars, rkVars, rqVars>>

\* One iteration of request r's loop over its files.
ProcessFileIn(r) ==
    /\ inFlight[r].pc = "file"
    /\ LET rq == inFlight[r]
           file == rq.files[rq.fileNo]
           got == ExtractFileText(file)
           made == docsArrays[DocsArrayOf(r)] \o DocumentsOf(file, got.text)
       IN  IF got.returns # ""
           THEN FulfilIn(r, TextResponse(got.returns)) /\ UNCHANGED docsArrays
           ELSE /\ docsArrays' = [docsArrays EXCEPT ![DocsArrayOf(r)] = made]
                /\ IF rq.fileNo < Len(rq.files)
                   THEN inFlight' = [inFlight EXCEPT ![r].fileNo = @ + 1]
                   ELSE IF made = <<>>
                        THEN FulfilIn(r, TextResponse(NoUsefulContentText))
                        ELSE inFlight' = [inFlight EXCEPT ![r].pc = "rank"]
    /\ UNCHANGED <<uiVars, pvVars, puVars, exVars, chVars, rkVars, rqVars>>

\* findSimilarDocuments(docs, question, embeddingModel, 2) returns to
\* request r: both embedding calls answered, by the same model.
RankDocumentsIn(r) ==
    /\ inFlight[r].pc = "rank"
    /\ LET rq == inFlight[r]
           mine == docsArrays[DocsArrayOf(r)]
           asked == IF rq.question # <<>> THEN rq.question ELSE DefaultQuestion
       IN  \E f \in EmbeddingFunctions :
              LET embedded == [j \in 1..Len(mine) |-> Embed(f, mine[j].pageContent)]
                  top == TopK(SimilaritiesOf(embedded, Embed(f, CleanText(asked))),
                              PipelineK)
              IN  inFlight' = [inFlight EXCEPT
                      ![r].pc = "generate",
                      ![r].relevantDocs = [j \in 1..Len(top) |-> mine[top[j]]]]
    /\ UNCHANGED <<uiVars, pvVars, docsArrays, puVars, exVars, chVars, rkVars, rqVars>>

\* The embedding provider fails request r.
RankingFailsIn(r) ==
    /\ inFlight[r].pc = "rank"
    /\ FulfilIn(r, TextResponse(AnalysisErrorText))
    /\ UNCHANGED <<uiVars, pvVars, docsArrays, puVars, exVars, chVars, rkVars, rqVars>>

\* llm.predict raced against 25 s in request r, then its response.
GenerateAnswerIn(r) ==
    /\ inFlight[r].pc = "generate"
    /\ \E answer \in Answers \cup {ApologyText} :
          FulfilIn(r, CitedResponse(answer, CitationsOf(inFlight[r].relevantDocs)))
    /\ UNCHANGED <<uiVars, pvVars, docsArrays, puVars, exVars, chVars, rkVars, rqVars>>

\* Request r's own 55 s timer fires first.
RequestTimesOutIn(r) ==
    /\ inFlight[r].pc \in {"formData", "file", "rank", "generate"}
    /\ inFlight[r].response = NoResponse
    /\ inFlight' = [inFlight EXCEPT ![r].response = TextResponse(TimedOutText)]
    /\ UNCHANGED <<uiVars, pvVars, docsArrays, puVars, exVars, chVars, rkVars, rqVars>>

NextConcurrent ==
    \E r \in RequestIds :
        \/ ReceivePOST(r)
        \/ ReadFormDataIn(r)
        \/ ProcessFileIn(r)
        \/ RankDocumentsIn(r)
        \/ RankingFailsIn(r)
        \/ GenerateAnswerIn(r)
        \/ RequestTimesOutIn(r)

SpecConcurrent == InitConcurrent /\ [][NextConcurrent]_vars

----------------------------------------------------------------------------
(* Properties of splitTextIntoChunks                                       *)

\* The windows whose trimmed slice was pushed: one per returned chunk.
PushedWindows == SelectSeq(windows, LAMBDA w : w.pushed)

\* C4: on return, every non-white-space position of the cleaned text lies in
\* the window of a returned chunk, consecutive windows of the loop leave no
\* gap, and the chunks are returned in increasing order of window start.
C4_ChunkCoverage ==
    chPc = "done" =>
        /\ sections = SplitOnBlankLines(CleanText(text))
        /\ \A m \in 1..Len(sections) : \A pos \in 0..(Len(sections[m]) - 1) :
              ~IsSpace(sections[m][pos + 1]) =>
                  \E n \in 1..Len(PushedWindows) :
                      /\ PushedWindows[n].section = m
                      /\ PushedWindows[n].start <= pos
                      /\ pos < PushedWindows[n].end
        /\ \A n \in 1..(Len(windows) - 1) :
              windows[n].section = windows[n + 1].section =>
                  windows[n + 1].start <= windows[n].end
        /\ Len(chunks) = Len(PushedWindows)
        /\ \A n \in 1..Len(chunks) :
              chunks[n] = WindowChunk(sections[PushedWindows[n].section],
                                      PushedWindows[n].start, PushedWindows[n].end)
        /\ \A n \in 1..(Len(PushedWindows) - 1) :
              \/ PushedWindows[n].section < PushedWindows[n + 1].section
              \/ /\ PushedWindows[n].section = PushedWindows[n + 1].section
                 /\ PushedWindows[n].start < PushedWindows[n + 1].start

\* A return after a section was cut into three or more overlapping windows,
\* one of them extended to the next space.
C4_Witness ==
    /\ chPc = "done"
    /\ overlap > 0
    /\ Len(chunks) >= 3
    /\ \E n \in 1..Len(windows) : windows[n].end - windows[n].start > chunkSize

\* The least n with n * d >= len.
CeilDiv(len, d) == (len + d - 1) \div d

\* C5: for 0 <= overlap < chunkSize every iteration of the while loop moves
\* the window start forward by chunkSize - overlap, the loop makes at most
\* ceil(section.length / (chunkSize - overlap)) iterations, and the call
\* returns.
C5_WindowLoopTerminates ==
    /\ [][SlideWindow => (index' = index + (chunkSize - overlap) /\ index' > index)]_vars
    /\ [](chPc = "window" =>
            /\ index = iterations * (chunkSize - overlap)
            /\ iterations <= CeilDiv(Len(sections[sectionNo]), chunkSize - overlap))
    /\ <>(chPc = "done")

\* A loop that needed several iterations has ended.
C5_Witness ==
    /\ chPc = "done"
    /\ iterations >= 3
    /\ overlap > 0
    /\ iterations = CeilDiv(Len(sections[1]), chunkSize - overlap)

----------------------------------------------------------------------------
(* Properties of findSimilarDocuments                                      *)

\* Document i is ranked ahead of document j: a greater similarity, or the
\* same similarity and an earlier place in docs.
RanksAhead(i, j) ==
    \/ SignOfDifference(similarities[i], similarities[j]) > 0
    \/ SignOfDifference(similarities[i], similarities[j]) = 0 /\ i < j

InRanked(i) == \E n \in 1..Len(ranked) : ranked[n] = i

PlaceOf(i) == CHOOSE n \in 1..Len(ranked) : ranked[n] = i

\* C6: the returned documents are in descending order of similarity, equal
\* similarities keeping the order of docs, and they are the first k of that
\* order: no document left out ranks ahead of one returned.
C6_DescendingStableTopK ==
    rkPc = "returned" =>
        /\ \A n \in 1..Len(ranked) : ranked[n] \in 1..Len(docEmbeddings)
        /\ \A n \in 1..(Len(ranked) - 1) : RanksAhead(ranked[n], ranked[n + 1])
        /\ \A i \in 1..Len(docEmbeddings) :
              ~InRanked(i) => \A n \in 1..Len(ranked) : RanksAhead(ranked[n], i)
        /\ k \in 0..Len(docEmbeddings) => Len(ranked) = k

\* Two documents tie and both are returned, with a third ranked between or
\* around them.
C6_Witness ==
    /\ rkPc = "returned"
    /\ Len(docEmbeddings) = 3 /\ k = 2
    /\ SignOfDifference(similarities[1], similarities[2]) < 0
    /\ SignOfDifference(similarities[2], similarities[3]) = 0
    /\ ranked = <<2, 3>>

\* C7: for every integer k the number of returned documents is
\* min(max(k, 0), docs.length).
C7_KClamped ==
    rkPc = "returned" =>
        Len(ranked) = (IF k < 0 THEN 0
                       ELSE IF k > Len(docEmbeddings) THEN Len(docEmbeddings) ELSE k)

\* a . b = 0
Orthogonal(a, b) == SumTo([i \in 1..Len(a) |-> a[i] * b[i]], Len(a)) = 0

\* C8: a document whose embedding equals the query's is placed before every
\* document whose embedding is orthogonal to the query's, whatever their
\* order in docs: if the orthogonal one is returned, so is the identical
\* one, ahead of it.
C8_IdenticalBeforeOrthogonal ==
    rkPc = "returned" =>
        \A i, j \in 1..Len(docEmbeddings) :
            /\ docEmbeddings[i] = queryEmbedding
            /\ Orthogonal(queryEmbedding, docEmbeddings[j])
            /\ InRanked(j)
            => InRanked(i) /\ PlaceOf(i) < PlaceOf(j)

\* Query a = [1,0] against [b, c] with b = [0,1], c = [1,0] gives [c, b].
C8_Witness ==
    /\ rkPc = "returned"
    /\ queryEmbedding = <<1, 0>>
    /\ docEmbeddings = << <<0, 1>>, <<1, 0>> >>
    /\ k = 2
    /\ ranked = <<2, 1>>

----------------------------------------------------------------------------
(* Properties of POST /api/chat                                            *)

\* C1: whenever the embedding provider is not configured, or an embedding
\* call raises, the request is not answered with the service-unavailable
\* message nor with the error-while-analyzing message.
C1_LexicalFallback ==
    (response # NoResponse /\ (~embeddingModel \/ rkPc = "threw")) =>
        response.text \notin {ServiceUnavailableText, AnalysisErrorText}

\* C9: every citation text of a response is at most 150 characters long,
\* ends with an ellipsis exactly when its chunk was longer than 150
\* characters, and is the chunk itself when the chunk has 150 characters or
\* fewer.
C9_CitationTextWithinLimit ==
    response.hasCitations =>
        \A j \in 1..Len(response.citations) :
            LET cited == response.citations[j].text
                chunk == relevantDocs[j].pageContent
            IN  /\ Len(cited) <= CitationLength
                /\ EndsWith(cited, Ellipsis) <=> Len(chunk) > CitationLength
                /\ Len(chunk) <= CitationLength => cited = chunk

\* The citations of the response are those of the ranked chunks, one each and
\* in rank order: citation j starts with the chunk ranked j-th and carries
\* its page, no chunk is ranked twice, and there are at most k = 2.
CitesRankedInOrder ==
    /\ Len(response.citations) = Len(ranked)
    /\ Len(response.citations) <= PipelineK
    /\ \A i, j \in 1..Len(ranked) : ranked[i] = ranked[j] => i = j
    /\ \A j \in 1..Len(ranked) :
          LET chunk == docs[ranked[j]]
              cited == response.citations[j]
          IN  /\ ranked[j] \in 1..Len(docs)
              /\ Len(cited.text) >= Len(Ellipsis)
              /\ SubSeq(cited.text, 1, Len(cited.text) - Len(Ellipsis))
                    = Substring(chunk.pageContent, CitationLength)
              /\ cited.page = chunk.metadata.page

\* C10 as stated: the citation list holds exactly one citation per ranked
\* chunk, in rank order, never more than k = 2, and every cited source is
\* the file name of the ranked chunk.
C10_SourceIsFileName ==
    response.hasCitations =>
        /\ CitesRankedInOrder
        /\ \A j \in 1..Len(ranked) :
              response.citations[j].source = docs[ranked[j]].metadata.source

\* C10, amended: the citation list holds exactly one citation per ranked
\* chunk, in rank order, never more than k = 2, and every cited source is
\* the file name of the ranked chunk, or "document" when that file has an
\* empty name.
C10_CitationsFollowRanking ==
    response.hasCitations =>
        /\ CitesRankedInOrder
        /\ \A j \in 1..Len(ranked) :
              LET name == docs[ranked[j]].metadata.source
              IN  response.citations[j].source =
                      (IF name = <<>> THEN DefaultSource ELSE name)

\* A response citing two of five chunks, the later chunk ranked first, one
\* from the file without a name and one from a named file.
C10_Witness ==
    /\ response.hasCitations
    /\ Len(docs) = 5
    /\ Len(ranked) = 2
    /\ ranked[1] > ranked[2]
    /\ \E i, j \in 1..2 :
          /\ docs[ranked[i]].metadata.source = Unnamed
          /\ docs[ranked[j]].metadata.source = NameTxt

\* The texts a response can carry.
ResponseTexts ==
    { ServiceUnavailableText, UploadPromptText, DifficultiesReadingText,
      NoTextContentText, NoUsefulContentText, AnalysisErrorText, ApologyText,
      TimedOutText, SomethingWentWrongText }
    \cup { FileErrorText(name) : name \in {NameTxt, NamePdf, Unnamed} }
    \cup Answers

\* C11: every response of POST /api/chat has status 200 and carries a text,
\* whichever way the request went, and a request that was refused or whose
\* processing settled has a response.
C11_Status200WithText ==
    /\ response # NoResponse =>
          /\ response.status = 200
          /\ response.text \in ResponseTexts
    /\ rqPc \in {"refused", "settled"} => response # NoResponse

\* The request whose file could not be read was answered.
C11_Witness ==
    /\ rqPc = "settled"
    /\ response.status = 200
    /\ response.text = FileErrorText(NameTxt)

\* C12: when embedDocuments or embedQuery raises, findSimilarDocuments
\* raises: nothing is ranked, no document reaches the prompt, llm.predict is
\* not called, and the processing settles with the analysis error, a
\* response without citations.
C12_RankingFailsAsAUnit ==
    rkPc = "threw" =>
        /\ similarities = <<>> /\ ranked = <<>> /\ relevantDocs = <<>>
        /\ llmCalls = 0
        /\ rqPc = "settled"
        /\ processed = [state |-> "fulfilled",
                        value |-> TextResponse(AnalysisErrorText)]
        /\ ~response.hasCitations /\ response.citations = <<>>

\* embedQuery raised after embedDocuments had answered for three documents.
C12_Witness ==
    /\ rkPc = "threw"
    /\ Len(docEmbeddings) = 3
    /\ response = TextResponse(AnalysisErrorText)

\* Extraction gave nothing: the text read is white space only.
NothingExtracted(file) == file.readable /\ Trim(TextReadFrom(file)) = <<>>

\* Extraction gave no usable text: nothing is left of it after cleaning.
NoUsableText(file) == file.readable /\ CleanText(TextReadFrom(file)) = <<>>

----------------------------------------------------------------------------
(* Properties of two requests in flight                                    *)

RECURSIVE ProcessedAlone(_, _, _)
\* The loop over the files fl from file n on, given the documents so far,
\* with no other request running: the text it returns early, or its docs.
ProcessedAlone(fl, n, soFar) ==
    IF n > Len(fl) THEN [returns |-> "", docs |-> soFar]
    ELSE LET got == ExtractFileText(fl[n])
         IN  IF got.returns # "" THEN [returns |-> got.returns, docs |-> <<>>]
             ELSE ProcessedAlone(fl, n + 1, soFar \o DocumentsOf(fl[n], got.text))

\* findSimilarDocuments can return rel for the documents ds and question q.
RankedAlone(rel, ds, q) ==
    \E f \in EmbeddingFunctions :
        LET top == TopK(SimilaritiesOf([j \in 1..Len(ds) |-> Embed(f, ds[j].pageContent)],
                                       Embed(f, CleanText(q))), PipelineK)
        IN  rel = [j \in 1..Len(top) |-> ds[top[j]]]

\* POST can return res to a request with files fl and question q that is
\* the only request, its ranking, if it got to one, being rel.
AnsweredAlone(res, fl, q, rel) ==
    LET alone == ProcessedAlone(fl, 1, <<>>)
        asked == IF q # <<>> THEN q ELSE DefaultQuestion
    IN  IF ~apiKey \/ ~embeddingModel \/ ~llm
        THEN res = TextResponse(ServiceUnavailableText)
        ELSE \/ res = TextResponse(TimedOutText)
             \/ IF fl = <<>> THEN res = TextResponse(UploadPromptText)
                ELSE IF alone.returns # "" THEN res = TextResponse(alone.returns)
                ELSE IF alone.docs = <<>> THEN res = TextResponse(NoUsefulContentText)
                ELSE \/ res = TextResponse(AnalysisErrorText)
                     \/ /\ res \in { CitedResponse(a, CitationsOf(rel)) :
                                         a \in Answers \cup {ApologyText} }
                        /\ RankedAlone(rel, alone.docs, asked)

\* The documents the first n of the files fl give to a request run alone.
DocsOfFirst(fl, n) == ProcessedAlone(SubSeq(fl, 1, n), 1, <<>>).docs

\* C14: two requests in flight share no retrieval state. Whatever the
\* interleaving of their awaits, the docs array of each holds the chunks of
\* its own files only, in order, and when it is ranked exactly the chunks
\* it would hold had the request run alone; the ranked documents come from
\* that array; every citation names a file of the request; the response is
\* one the request could get alone; and no step of a request writes the
\* module's apiKey, embeddingModel or llm.
C14_RequestsShareNoRetrievalState ==
    /\ [](\A r \in RequestIds :
            LET rq == inFlight[r]
            IN  /\ \E n \in 0..Len(rq.files) :
                       docsArrays[r] = DocsOfFirst(rq.files, n)
                /\ rq.pc \in {"rank", "generate"} =>
                       docsArrays[r] = DocsOfFirst(rq.files, Len(rq.files))
                /\ \A j \in 1..Len(rq.relevantDocs) :
                       \E i \in 1..Len(docsArrays[r]) :
                           rq.relevantDocs[j] = docsArrays[r][i]
                /\ \A j \in 1..Len(rq.response.citations) :
                       \E n \in 1..Len(rq.files) :
                           rq.response.citations[j].source = rq.files[n].name
                /\ rq.response # NoResponse =>
                       AnsweredAlone(rq.response, rq.files, rq.question,
                                     rq.relevantDocs))
    /\ [][UNCHANGED <<apiKey, embeddingModel, llm>>]_vars

\* A has answered with citations while B, which began before A finished,
\* stands between its file loop and its ranking.
C14_Witness ==
    /\ inFlight["A"].pc = "settled"
    /\ inFlight["A"].response.hasCitations
    /\ Len(inFlight["A"].response.citations) = 2
    /\ inFlight["B"].pc = "rank"
    /\ Len(docsArrays["B"]) = 3
    /\ Len(docsArrays["A"]) = 3

----------------------------------------------------------------------------
(* Properties of the race between the processing and the 55 s timer        *)

\* C15: a request gets exactly one response, decided by the race. Once POST
\* has returned, the response never changes, whatever the processing or the
\* timer do later. The response is the timed-out message, without citations,
\* when the timer fires while the processing is pending; it is the
\* processing's own result when the processing settles first. A request
\* that was received is answered in the end.
C15_OneResponseByRace ==
    /\ [][ /\ response # NoResponse => response' = response
           /\ (response = NoResponse /\ response' # NoResponse) =>
                 \/ /\ rqPc = "idle"
                    /\ response' = TextResponse(ServiceUnavailableText)
                 \/ /\ processed = Pending /\ processed' = Pending
                    /\ response' = TextResponse(TimedOutText)
                 \/ /\ processed = Pending /\ processed'.state = "fulfilled"
                    /\ response' = processed'.value
                 \/ /\ processed = Pending /\ processed'.state = "rejected"
                    /\ response' = TextResponse(SomethingWentWrongText) ]_vars
    /\ [](response.text = TimedOutText =>
             ~response.hasCitations /\ response.citations = <<>>)
    /\ (rqPc # "idle") ~> (response # NoResponse)

\* The timer won, and the processing went on to an answer with citations
\* that no client sees.
C15_Witness ==
    /\ response = TextResponse(TimedOutText)
    /\ processed.state = "fulfilled"
    /\ processed.value.hasCitations
    /\ Len(processed.value.citations) = 2
    /\ docs # <<>>

----------------------------------------------------------------------------
(* Properties of repeated calls of extractBasicPdfText                     *)

\* C16: extractBasicPdfText is a function of its argument. A call returns
\* what every earlier call with the same argument returned, whatever calls
\* came between; every pass starts with the cursor of its regular expression
\* at 0 and no cursor is left standing after a pass or a call; and the
\* fragments the passes collect are those of seven scans from the start of
\* the decoded data.
C16_SameInputSameText ==
    /\ \A c \in resolvedCalls, d \in resolvedCalls : c[1] = d[1] => c[2] = d[2]
    /\ exPc = "resolved" =>
          \A c \in resolvedCalls : c[1] = base64Data => c[2] = exResult
    /\ \A p \in 1..8 : lastIndex[p] = 0
    /\ exPc = "collected" => textFragments = AllFragments(decodedData)

\* The argument with two /TJ arrays is given a second time, after calls with
\* other arguments.
C16_Witness ==
    /\ exPc = "resolved"
    /\ base64Data = Btoa(TwoArrays)
    /\ Len(textFragments) > 2
    /\ <<base64Data, exResult>> \in resolvedCalls
    /\ Cardinality(resolvedCalls) >= 3

----------------------------------------------------------------------------
(* Properties of requests with files of many chunks                        *)

\* The chunks of all the files of the request, in document order.
ChunksInDocumentOrder ==
    Flatten([n \in 1..Len(files) |->
        SplitTextIntoChunks(CleanText(TextReadFrom(files[n])),
                            PipelineChunkSize, PipelineOverlap)])

\* C17: the chunks of a request that are asked to embedding and ranking
\* are never more than 50, and they are the first chunks of the request in
\* document order.
C17_AtMostFiftyChunks ==
    rqPc \in {"rank", "embedQuery", "generate"} =>
        /\ Len(docs) <= maxChunks
        /\ Len(docEmbeddings) <= maxChunks
        /\ [j \in 1..Len(docs) |-> docs[j].pageContent]
              = SliceTo(ChunksInDocumentOrder, maxChunks)

----------------------------------------------------------------------------
(* Properties of splitTextIntoChunks on paragraphs                         *)

\* The paragraphs of the text as passed: what two or more consecutive
\* newlines separate, each cleaned, the blank ones left out.
Paragraphs ==
    LET parts == SplitOnBlankLines(text)
    IN  SelectSeq([m \in 1..Len(parts) |-> CleanText(parts[m])],
                  LAMBDA para : para # <<>>)

\* C18: the text is split at blank lines before windowing. On return every
\* chunk lies within one paragraph of the text, and every paragraph no longer
\* than chunkSize is a chunk.
C18_ParagraphsChunkedApart ==
    chPc = "done" =>
        /\ \A j \in 1..Len(chunks) :
              \E m \in 1..Len(Paragraphs) : Occurrences(chunks[j], Paragraphs[m]) >= 1
        /\ \A m \in 1..Len(Paragraphs) :
              Len(Paragraphs[m]) <= chunkSize => CountOf(Paragraphs[m], chunks) >= 1

----------------------------------------------------------------------------
(* Properties of the sentence deduplication of extractBasicPdfText         *)

\* The sentences of a text: what a terminator followed by white space
\* separates, the last one without the terminator that ends the text.
SentencesOf(t) ==
    LET parts == SplitSentences(t)
        last == parts[Len(parts)]
    IN  IF last # <<>> /\ IsSentenceEnd(last[Len(last)])
        THEN [parts EXCEPT ![Len(parts)] = Slice(last, 1, Len(last) - 1)]
        ELSE parts

\* C19: when the call returns the extracted text, no sentence occurs in it
\* more than once, and its sentences are the distinct sentences of the
\* cleaned-up fragments in the order of their first occurrence.
C19_NoSentenceTwice ==
    (exPc = "resolved" /\ exResult = extractedText) =>
        LET final == SentencesOf(extractedText)
            joined == CleanUpExtracted(Join(textFragments, <<Space>>))
        IN  /\ \A i \in 1..Len(final) : \A j \in 1..Len(final) :
                  i # j => final[i] # final[j]
            /\ final = UniqueInOrder(SentencesOf(joined))

----------------------------------------------------------------------------
(* Properties of escaped parentheses in extractBasicPdfText                *)

\* C20: a literal with an escaped parenthesis is extracted as one whole
\* fragment, and the call returns its text with the parenthesis unescaped:
\* the backslash removed, nothing after the parenthesis lost.
C20_EscapedParenthesesKept ==
    \A e \in EscapedLiterals :
        (exPc = "resolved" /\ decodedData = e.literal) =>
            /\ textFragments = <<Slice(e.literal, 2, Len(e.literal) - 1)>>
            /\ exResult = e.meant

----------------------------------------------------------------------------
(* Properties of the windows of adjacent chunks                            *)

\* Window w ends where the section ends.
ReachesEnd(w) == w.end = Len(sections[w.section])

\* The source positions two windows of one section share, v the later one.
SharedPositions(w, v) ==
    LET upTo == IF w.end < v.end THEN w.end ELSE v.end
    IN  IF upTo > v.start THEN upTo - v.start ELSE 0

\* Windows w and v, v the later, are set as the overlap asks: v starts
\* chunkSize - overlap after w; unless v is cut short by the end of the
\* section, they share the overlap and what w was extended by to reach a
\* word boundary.
OverlapKept(w, v) ==
    /\ v.start = w.start + (chunkSize - overlap)
    /\ ~ReachesEnd(v) =>
          /\ SharedPositions(w, v) >= overlap
          /\ SharedPositions(w, v) = overlap + (w.end - (w.start + chunkSize))

\* C21 as stated: any two adjacent chunks of one oversized section come
\* from windows set as the overlap asks.
C21_AdjacentChunksOverlap ==
    chPc = "done" =>
        \A n \in 1..(Len(PushedWindows) - 1) :
            ( /\ PushedWindows[n].section = PushedWindows[n + 1].section
              /\ Len(sections[PushedWindows[n].section]) > chunkSize )
            => OverlapKept(PushedWindows[n], PushedWindows[n + 1])

\* C21, amended: any two consecutive windows of the loop over one oversized
\* section are set as the overlap asks; so are the windows of two adjacent
\* chunks whenever chunkSize is 2 or more, when no window of the loop is
\* blank.
C21_ConsecutiveWindowsOverlap ==
    chPc = "done" =>
        /\ \A n \in 1..(Len(windows) - 1) :
              ( /\ windows[n].section = windows[n + 1].section
                /\ Len(sections[windows[n].section]) > chunkSize )
              => OverlapKept(windows[n], windows[n + 1])
        /\ chunkSize >= 2 =>
              \A n \in 1..Len(windows) :
                  Len(sections[windows[n].section]) > chunkSize => windows[n].pushed

\* Two chunks from windows that overlap by more than the overlap asked for,
\* the first one extended to the next space.
C21_Witness ==
    /\ chPc = "done"
    /\ overlap > 0
    /\ \E n \in 1..(Len(PushedWindows) - 1) :
          /\ PushedWindows[n].section = PushedWindows[n + 1].section
          /\ ~ReachesEnd(PushedWindows[n + 1])
          /\ SharedPositions(PushedWindows[n], PushedWindows[n + 1]) > overlap


----------------------------------------------------------------------------
(* C22: an overlap that is not below chunkSize                              *)

\* The while loop runs over an oversized section with overlap >= chunkSize.
OverlapTooLarge == chPc = "window" /\ overlap >= chunkSize

LoopNeverAdvances == OverlapTooLarge => index <= 0

\* The loop has run MaxIterations times with overlap = chunkSize and has
\* pushed a chunk every time.
ChunkListGrows ==
    /\ OverlapTooLarge /\ overlap = chunkSize
    /\ iterations = MaxIterations /\ Len(chunks) = MaxIterations

----------------------------------------------------------------------------
(* C29: the windows after the one that reached the end of the section      *)

\* Window v lies within window w.
ContainedIn(v, w) == v.start >= w.start /\ v.end <= w.end

\* C29: within one oversized section no chunk is emitted after a window has
\* reached the end of the section, so that no returned chunk's source window
\* lies entirely within the window of the chunk before it.
C29_NoChunkAfterSectionEnd ==
    chPc = "done" =>
        \A n \in 1..(Len(PushedWindows) - 1) :
            ( /\ PushedWindows[n].section = PushedWindows[n + 1].section
              /\ Len(sections[PushedWindows[n].section]) > chunkSize )
            => /\ ~ReachesEnd(PushedWindows[n])
               /\ ~ContainedIn(PushedWindows[n + 1], PushedWindows[n])

\* The call has returned a chunk whose window starts after a window that
\* already ran to the end of the section.
ChunkAfterSectionEnd ==
    /\ chPc = "done"
    /\ \E n \in 1..(Len(PushedWindows) - 1) :
          /\ PushedWindows[n].section = PushedWindows[n + 1].section
          /\ ReachesEnd(PushedWindows[n])
          /\ ContainedIn(PushedWindows[n + 1], PushedWindows[n])

----------------------------------------------------------------------------
(* C23: an embedding provider that never answers                            *)

\* findSimilarDocuments awaits embedDocuments or embedQuery.
AwaitsEmbedding == rqPc \in {"rank", "embedQuery"}

\* C23: the embedding calls run under a timeout of their own, so that a call
\* the provider never answers is given up: the processing leaves the
\* embedding stage, by the answer or by the degraded path.
C23_EmbeddingCallsTimeOut == AwaitsEmbedding ~> ~AwaitsEmbedding

\* The 55 s timer has answered the request while the processing still awaits
\* an embedding call.
TimedOutAwaitingEmbedding ==
    /\ AwaitsEmbedding
    /\ processed = Pending
    /\ response = TextResponse(TimedOutText)

----------------------------------------------------------------------------
(* C24: what the ranking is started on                                      *)

\* Per upload, what the extraction of the file returns from the handler
\* with ("" when it goes on), and the documents made of its text.
ReturnsOfUpload == [u \in Uploads |-> ExtractFileText(u).returns]
DocumentsOfUpload == [u \in Uploads |-> DocumentsOf(u, ExtractFileText(u).text)]

\* The documents of the first n files of fs, file after file.
RECURSIVE CandidatesOf(_, _)
CandidatesOf(fs, n) ==
    IF n = 0 THEN <<>>
    ELSE CandidatesOf(fs, n - 1) \o DocumentsOfUpload[fs[n]]

\* findSimilarDocuments has been called.
RankingStarted == rqPc \in {"rank", "embedQuery", "generate"} \/ rkPc # "idle"

\* C24: the ranking starts only when every uploaded file has been extracted
\* and chunked, and its candidates are the retained chunks of all the files,
\* concatenated in upload order: it never runs on a part of the upload.
C24_RankingAfterAllFiles ==
    RankingStarted =>
        /\ fileNo = Len(files)
        /\ \A n \in 1..Len(files) : ReturnsOfUpload[files[n]] = ""
        /\ docs = CandidatesOf(files, Len(files))
        /\ rkPc \in {"embedQuery", "returned"} => Len(docEmbeddings) = Len(docs)
        /\ \A j \in 1..Len(relevantDocs) :
              \E d \in 1..Len(docs) : relevantDocs[j] = docs[d]

\* Two files of different names were ranked, and a chunk of the second one
\* came first.
C24_Witness ==
    /\ rqPc = "generate" /\ rkPc = "returned"
    /\ Len(files) = 2
    /\ files[1].name # files[2].name
    /\ DocumentsOfUpload[files[1]] # <<>>
    /\ Len(docs) > Len(DocumentsOfUpload[files[1]])
    /\ relevantDocs # <<>>
    /\ relevantDocs[1].metadata.source = files[2].name

----------------------------------------------------------------------------
(* C25: the page of a citation                                              *)

\* The number of documents the first n files of the request have given.
DocsBefore(n) == Len(CandidatesOf(files, n))

\* The file document d comes from.
FileOfDoc(d) == Min({n \in 1..Len(files) : d <= DocsBefore(n)})

\* The 0-based position of document d among the chunks of its own file.
OrdinalOfDoc(d) == d - DocsBefore(FileOfDoc(d) - 1) - 1

\* The pages of the documents of file n, in order.
PagesOfFile(n) ==
    [j \in 1..(DocsBefore(n) - DocsBefore(n - 1)) |->
        docs[DocsBefore(n - 1) + j].metadata.page]

\* C25: the page of every citation is floor(ordinal / 2) + 1, where ordinal
\* is the 0-based position of the cited chunk among the chunks of its own
\* file; it is at least 1, and within one file the pages never decrease and
\* no page number is given to more than two chunks.
C25_PageFromOrdinalInFile ==
    /\ ( processed.value.hasCitations /\ rkPc = "returned" ) =>
           \A j \in 1..Len(processed.value.citations) :
               /\ processed.value.citations[j].page
                      = (OrdinalOfDoc(ranked[j]) \div 2) + 1
               /\ processed.value.citations[j].page >= 1
    /\ RankingStarted =>
           \A n \in 1..Len(files) :
               LET pages == PagesOfFile(n)
               IN  /\ \A a \in 1..(Len(pages) - 1) : pages[a] <= pages[a + 1]
                   /\ \A a \in 1..Len(pages) :
                         Cardinality({b \in 1..Len(pages) : pages[b] = pages[a]}) <= 2

\* The third document of the request is the second chunk of the second
\* file and is cited with page 1; the chunk after it is cited with page 2.
C25_Witness ==
    /\ response.hasCitations /\ rkPc = "returned"
    /\ Len(response.citations) = 2
    /\ \E j \in 1..2 :
          /\ ranked[j] = 3 /\ FileOfDoc(3) = 2
          /\ response.citations[j].page = 1
    /\ \E j \in 1..2 : response.citations[j].page = 2

----------------------------------------------------------------------------
(* C26: the answer when the generation fails                                *)

\* The citation of the d-th document of the request, built from the file it
\* comes from.
CitationOfDoc(d) ==
    LET doc == docs[d]
    IN  [text |-> Substring(CleanText(doc.pageContent), CitationLength) \o Ellipsis,
         source |-> IF files[FileOfDoc(d)].name # <<>> THEN files[FileOfDoc(d)].name
                    ELSE DefaultSource,
         page |-> (OrdinalOfDoc(d) \div 2) + 1]

\* The step in which llm.predict has raised or lost against its 25 s timer.
GenerationFails == rqPc = "generate" /\ processed'.value.text = ApologyText

\* C26 as stated: when llm.predict raises or does not answer within 25 s,
\* the request still returns a response whose text is the fixed apology and
\* whose citations are those of the ranked chunks.
C26_ApologyAlwaysReturned ==
    [][ GenerationFails =>
          response' = CitedResponse(ApologyText,
                         [j \in 1..Len(ranked) |-> CitationOfDoc(ranked[j])]) ]_vars

\* C26, amended: when llm.predict raises or does not answer within 25 s, the
\* processing still ends with a response of status 200 whose text is the
\* fixed apology and whose citations are those of the ranked chunks, one for
\* each and in ranking order; the request returns it unless the 55 s timer
\* has answered before.
C26_ApologyKeepsCitations ==
    /\ [][ ( rqPc = "generate" /\ rqPc' # "generate" ) =>
             /\ processed'.state = "fulfilled"
             /\ processed'.value.status = 200
             /\ processed'.value.hasCitations
             /\ Len(processed'.value.citations) = Len(relevantDocs)
             /\ response = NoResponse => response' = processed'.value ]_vars
    /\ []( ( processed.value.text = ApologyText /\ rkPc = "returned" ) =>
             /\ processed.value.hasCitations
             /\ processed.value.citations
                    = [j \in 1..Len(ranked) |-> CitationOfDoc(ranked[j])] )

\* The generation failed after a ranking that cited two chunks, and the
\* client got the apology with both citations.
C26_Witness ==
    /\ rqPc = "settled" /\ rkPc = "returned"
    /\ response.text = ApologyText
    /\ response.status = 200
    /\ Len(response.citations) = 2
    /\ Len(relevantDocs) = 2

----------------------------------------------------------------------------
(* The ChatInterface component: handleFileUpload, handleDrop, handleSubmit  *)
(* (part_008), with processFilesClientSide, clearChat and Remove (part_006) *)

\* Questions submitted in one run.
MaxQuestions == 2

\* Files selected at once.
MaxUiFiles == 2

GreetingText ==
    "Hello! I'll help you find information in your documents. Ask me any questions about their contents."
TookTooLongText ==
    "The server took too long to respond. PDF processing can be resource-intensive. Please try with a smaller file or a different format."
SorryText ==
    "I'm sorry, but I encountered an error while processing your question. This might be due to server issues or network problems. Please try again later."
SorryQuestionText ==
    "Sorry, I encountered an error while processing your question. Please try again."
SorryDocumentsText ==
    "Sorry, I encountered an error while processing your documents. Please try again with different files."

\* data.text and data.error of a response body
DataText == "An answer."
DataError == "The server failed."

\* Per file of a selection: whether file.size > 10 * 1024 * 1024.
FileSelections == UNION { [1..n -> {"within", "oversized"}] : n \in 0..MaxUiFiles }

UserMessage == [isAi |-> FALSE, text |-> "why"]
AiMessage(t) == [isAi |-> TRUE, text |-> t]

\* The effect on [files]: the error is set when a file exceeds 10 MB, and
\* left as it is otherwise.
CheckFileSizes(fs, err) ==
    IF \E j \in 1..Len(fs) : fs[j] = "oversized"
    THEN "Some files exceed the 10MB limit" ELSE err

\* How the fetch of /api/chat can end.
FetchOutcomes ==
    { "text", "errorStatusWithError", "errorStatusWithoutError", "errorIn200",
      "empty", "networkFailure", "aborted" }

\* What handleSubmit of part_008 does with the outcome: the error it sets
\* ("" when it sets none) and the text of the message it appends.
Handled008(o) ==
    CASE o = "text"                    -> [error |-> "", text |-> DataText]
      [] o = "errorStatusWithError"    -> [error |-> DataError, text |-> DataError]
      [] o = "errorStatusWithoutError" -> [error |-> "An unexpected error occurred",
                                           text |-> SorryText]
      [] o = "errorIn200"              -> [error |-> DataError, text |-> DataError]
      [] o = "empty"                   -> [error |-> "Received empty response",
                                           text |-> SorryText]
      [] o = "networkFailure"          -> [error |-> "Failed to fetch", text |-> SorryText]
      [] o = "aborted"                 -> [error |-> "Request timed out",
                                           text |-> TookTooLongText]

\* The same for part_006: every failure is caught by the inner catch.
Handled006(o) ==
    CASE o = "text"                    -> [error |-> "", text |-> DataText]
      [] o \in {"errorStatusWithError", "errorStatusWithoutError"}
                                       -> [error |-> "Server error", text |-> SorryQuestionText]
      [] o = "errorIn200"              -> [error |-> DataError, text |-> SorryQuestionText]
      [] o = "empty"                   -> [error |-> "Invalid response from server",
                                           text |-> SorryQuestionText]
      [] o = "networkFailure"          -> [error |-> "Failed to fetch",
                                           text |-> SorryQuestionText]
      [] o = "aborted"                 -> [error |-> "The operation was aborted",
                                           text |-> SorryQuestionText]

Handled(o) == IF component = "part_008" THEN Handled008(o) ELSE Handled006(o)

\* The component is mounted: no files, no messages.
MountChatInterface ==
    /\ component = ""
    /\ component' \in {"part_008", "part_006"}
    /\ UNCHANGED <<uiFiles, messages, isProcessing, error, submitPc, questionsSent,
                   answersShown, pvVars, exVars, chVars, rkVars, rqVars, ccVars, puVars>>

\* handleFileUpload and handleDrop, followed by the effect on [files].
SelectFiles ==
    /\ component # ""
    /\ \E fs \in FileSelections :
          /\ uiFiles' = fs
          /\ error' = CheckFileSizes(fs, "")
    /\ messages' = IF messages = <<>> THEN <<AiMessage(GreetingText)>> ELSE messages
    /\ UNCHANGED <<component, isProcessing, submitPc, questionsSent, answersShown,
                   pvVars, exVars, chVars, rkVars, rqVars, ccVars, puVars>>

\* The Remove button of a file (part_006), followed by the effect on [files].
RemoveFile ==
    /\ component = "part_006"
    /\ \E i \in 1..Len(uiFiles) :
          /\ uiFiles' = [j \in 1..(Len(uiFiles) - 1) |->
                            IF j < i THEN uiFiles[j] ELSE uiFiles[j + 1]]
          /\ error' = CheckFileSizes(uiFiles', error)
    /\ UNCHANGED <<component, messages, isProcessing, submitPc, questionsSent,
                   answersShown, pvVars, exVars, chVars, rkVars, rqVars, ccVars, puVars>>

\* clearChat (part_006): the button is shown with files and messages.
ClearChat ==
    /\ component = "part_006"
    /\ uiFiles # <<>> /\ messages # <<>>
    /\ messages' = <<>>
    /\ uiFiles' = <<>>
    /\ UNCHANGED <<component, isProcessing, error, submitPc, questionsSent, answersShown,
                   pvVars, exVars, chVars, rkVars, rqVars, ccVars, puVars>>

\* The Send button is not disabled.
SendEnabled == ~(isProcessing \/ uiFiles = <<>> \/ error # "")

\* handleSubmit with a question, up to its first await.
SubmitQuestion ==
    /\ component # ""
    /\ SendEnabled
    /\ questionsSent < MaxQuestions
    /\ messages' = Append(messages, UserMessage)
    /\ isProcessing' = TRUE
    /\ error' = ""
    /\ submitPc' = IF component = "part_006" THEN "clientSide" ELSE "fetch"
    /\ questionsSent' = questionsSent + 1
    /\ UNCHANGED <<component, uiFiles, answersShown,
                   pvVars, exVars, chVars, rkVars, rqVars, ccVars, puVars>>

\* The end of handleSubmit: the error, the AI message and the finally block.
FinishWith(err, txt) ==
    /\ error' = IF err = "" THEN error ELSE err
    /\ messages' = Append(messages, AiMessage(txt))
    /\ isProcessing' = FALSE
    /\ submitPc' = "idle"
    /\ answersShown' = answersShown + 1
    /\ UNCHANGED <<component, uiFiles, questionsSent,
                   pvVars, exVars, chVars, rkVars, rqVars, ccVars, puVars>>

\* An abort that leaves handleSubmit without a message.
FinishSilentlyOnAbort(o) ==
    IF o = "aborted"
    THEN /\ isProcessing' = FALSE
         /\ submitPc' = "idle"
         /\ UNCHANGED <<component, uiFiles, questionsSent, error, messages, answersShown,
                        pvVars, exVars, chVars, rkVars, rqVars, ccVars, puVars>>
    ELSE FinishWith(Handled(o).error, Handled(o).text)

\* handleSubmit from the settled fetch to its end.
Finish(o) == FinishWith(Handled(o).error, Handled(o).text)

\* processFilesClientSide resolves (part_006).
FilesProcessed ==
    /\ submitPc = "clientSide"
    /\ submitPc' = "fetch"
    /\ UNCHANGED <<component, uiFiles, messages, isProcessing, error, questionsSent,
                   answersShown, pvVars, exVars, chVars, rkVars, rqVars, ccVars, puVars>>

\* A FileReader fails: processFilesClientSide rejects, the outer catch.
FilesNotProcessed ==
    /\ submitPc = "clientSide"
    /\ FinishWith("Failed to process files. Please try again with different files.",
                  SorryDocumentsText)

\* The fetch settles with a response or a network failure, and the body is
\* read.
FetchSettles ==
    /\ submitPc = "fetch"
    /\ \E o \in FetchOutcomes \ {"aborted"} : Finish(o)

\* The abort timer (45 s, 120 s in part_006) fires while the fetch is
\* pending.
FetchAborted ==
    /\ submitPc = "fetch"
    /\ Finish("aborted")

NextChatInterface ==
    \/ MountChatInterface
    \/ SelectFiles
    \/ RemoveFile
    \/ ClearChat
    \/ SubmitQuestion
    \/ FilesProcessed
    \/ FilesNotProcessed
    \/ FetchSettles
    \/ FetchAborted

InitClient ==
    /\ NoChatMounted
    /\ NoPreviewMounted
    /\ NoCallsResolved
    /\ NoRequestsInFlight
    /\ ExtractorIdle
    /\ ChunkerIdle
    /\ RankerIdle
    /\ RequestIdle

SpecChatInterface == InitClient /\ [][NextChatInterface]_vars

\* The abort timer fires unless the fetch has settled, and a FileReader
\* ends with onload or onerror.
SpecChatInterfaceFair ==
    /\ SpecChatInterface
    /\ WF_vars(FetchAborted)
    /\ WF_vars(FilesProcessed \/ FilesNotProcessed)

----------------------------------------------------------------------------
(* C27: every question gets its answer                                      *)

\* C27: every submitted question ends with exactly one AI message appended,
\* after the user's message, and with isProcessing back to false, whatever
\* the outcome of the request.
C27_EveryQuestionAnswered ==
    /\ [](isProcessing => <>(~isProcessing))
    /\ [](answersShown = questionsSent - (IF isProcessing THEN 1 ELSE 0))
    /\ [][ questionsSent' # questionsSent =>
             /\ ~isProcessing /\ isProcessing'
             /\ messages' = Append(messages, UserMessage) ]_vars
    /\ [][ ( isProcessing /\ ~isProcessing' ) =>
             /\ Len(messages') = Len(messages) + 1
             /\ messages'[Len(messages')].isAi
             /\ SubSeq(messages', 1, Len(messages)) = messages ]_vars
    /\ [][ ( Len(messages') > Len(messages) /\ messages # <<>> ) =>
             ( isProcessing # isProcessing' ) ]_vars

\* Two questions were asked: the first request was aborted, the second one
\* was answered, and each has its one AI message after it.
C27_Witness ==
    /\ questionsSent = 2 /\ answersShown = 2 /\ ~isProcessing
    /\ Len(messages) = 5
    /\ ~messages[2].isAi /\ messages[3].isAi /\ ~messages[4].isAi
    /\ messages[3].text \in {TookTooLongText, SorryQuestionText}
    /\ messages[5].text = DataText

----------------------------------------------------------------------------
(* C28: asking again after a failure                                        *)

\* A file of the selection exceeds 10 MB.
SomeFileOversized == \E j \in 1..Len(uiFiles) : uiFiles[j] = "oversized"

\* C28: the Send button is enabled whenever files are present, none of them
\* exceeds 10 MB and no request is in flight; so after a failed request, once
\* isProcessing is false, the user can ask again about the same files.
C28_SendEnabledAfterError ==
    component # "" =>
        ( SendEnabled <=> ( uiFiles # <<>> /\ ~SomeFileOversized /\ ~isProcessing ) )

\* A request has failed, the files are still there and within the limit,
\* nothing is in flight, and the Send button is disabled.
SendDisabledAfterError ==
    /\ answersShown > 0 /\ ~isProcessing
    /\ uiFiles # <<>> /\ ~SomeFileOversized
    /\ messages[Len(messages)].text # DataText
    /\ ~SendEnabled

----------------------------------------------------------------------------
(* The PdfPreview component: the load effect, the render effect with its   *)
(* retry timer, and handleRetry; the document has one page                  *)

\* Render attempts followed after the mount.
MaxAttempts == 6

\* if (renderAttempts < 3)
RetryLimit == 3

\* The canvas is in the tree: neither the loading nor the error view is
\* returned.
CanvasMounted == ~loading /\ ~previewError

\* A sequence without its i-th item.
Without(s, i) == [j \in 1..(Len(s) - 1) |-> IF j < i THEN s[j] ELSE s[j + 1]]

\* The calls and the timers are kept in ascending order of their closures'
\* values: which of two equal closures came first makes no difference.
Insert(s, v) ==
    LET before == SelectSeq(s, LAMBDA x : x <= v)
        after  == SelectSeq(s, LAMBDA x : x > v)
    IN  before \o <<v>> \o after

\* renderPage() runs with a closure that holds seen as renderAttempts: it
\* returns at once without document or canvas, and starts an attempt
\* otherwise.
CallsAfterRenderPage(calls, seen) ==
    IF pdfDocument /\ CanvasMounted THEN Insert(calls, seen) ELSE calls

\* The component is mounted with a file: the load effect starts loadPdf, and
\* the render effect runs without a document.
MountPdfPreview ==
    /\ ~loading /\ ~pdfDocument /\ ~previewError /\ attemptsMade = 0
    /\ renderCalls = <<>> /\ retryTimers = <<>> /\ ~effectDue
    /\ loading' = TRUE
    /\ UNCHANGED <<pdfDocument, previewError, renderAttempts, effectDue, renderCalls,
                   retryTimers, attemptsMade,
                   callsOfRenderPage, uiVars, exVars, chVars, rkVars, rqVars, ccVars, puVars>>

\* loadPdfForPreview resolves: the document is set and the render effect is
\* due.
PdfLoaded ==
    /\ loading /\ ~pdfDocument
    /\ pdfDocument' = TRUE
    /\ loading' = FALSE
    /\ effectDue' = TRUE
    /\ UNCHANGED <<previewError, renderAttempts, renderCalls, retryTimers, attemptsMade,
                   callsOfRenderPage, uiVars, exVars, chVars, rkVars, rqVars, ccVars, puVars>>

\* loadPdfForPreview rejects.
PdfNotLoaded ==
    /\ loading /\ ~pdfDocument
    /\ previewError' = TRUE
    /\ loading' = FALSE
    /\ UNCHANGED <<pdfDocument, renderAttempts, effectDue, renderCalls, retryTimers,
                   attemptsMade, callsOfRenderPage, uiVars, exVars, chVars, rkVars, rqVars, ccVars, puVars>>

\* The render effect runs after a change of its dependencies: renderPage()
\* with the current renderAttempts in its closure.
RunRenderEffect ==
    /\ effectDue
    /\ callsOfRenderPage < MaxAttempts
    /\ effectDue' = FALSE
    /\ renderCalls' = CallsAfterRenderPage(renderCalls, renderAttempts)
    /\ attemptsMade' = attemptsMade + Len(renderCalls') - Len(renderCalls)
    /\ callsOfRenderPage' = callsOfRenderPage + Len(renderCalls') - Len(renderCalls)
    /\ UNCHANGED <<pdfDocument, loading, previewError, renderAttempts, retryTimers,
                   uiVars, exVars, chVars, rkVars, rqVars, ccVars, puVars>>

\* A render attempt succeeds: setRenderAttempts(0).
RenderSucceeds ==
    /\ \E i \in 1..Len(renderCalls) : renderCalls' = Without(renderCalls, i)
    /\ renderAttempts' = 0
    /\ effectDue' = (effectDue \/ renderAttempts # 0)
    /\ attemptsMade' = 0
    /\ UNCHANGED <<pdfDocument, loading, previewError, retryTimers,
                   callsOfRenderPage, uiVars, exVars, chVars, rkVars, rqVars, ccVars, puVars>>

\* What the catch of renderPage does with a failure, the closure holding
\* seen: below the limit the counter is raised from its current value and a
\* timer is started with the same closure; at the limit the error is set.
CatchRenderError(seen) ==
    IF seen < RetryLimit
    THEN /\ renderAttempts' = renderAttempts + 1
         /\ effectDue' = TRUE
         /\ retryTimers' = Insert(retryTimers, seen)
         /\ UNCHANGED previewError
    ELSE /\ previewError' = TRUE
         /\ UNCHANGED <<renderAttempts, effectDue, retryTimers>>

\* A render attempt fails with an error that is not 'Rendering cancelled'.
RenderFails ==
    /\ \E i \in 1..Len(renderCalls) :
          /\ renderCalls' = Without(renderCalls, i)
          /\ CatchRenderError(renderCalls[i])
    /\ UNCHANGED <<pdfDocument, loading, attemptsMade,
                   callsOfRenderPage, uiVars, exVars, chVars, rkVars, rqVars, ccVars, puVars>>

\* One of several attempts in flight, cancelled by the renderPage() call of
\* another, ends with 'Rendering cancelled': the catch does nothing.
RenderCancelled ==
    /\ Len(renderCalls) > 1
    /\ \E i \in 1..Len(renderCalls) : renderCalls' = Without(renderCalls, i)
    /\ UNCHANGED <<pdfDocument, loading, previewError, renderAttempts, effectDue,
                   retryTimers, attemptsMade,
                   callsOfRenderPage, uiVars, exVars, chVars, rkVars, rqVars, ccVars, puVars>>

\* A 500 ms timer fires: renderPage() of the closure that started it.
RetryTimerFires ==
    /\ callsOfRenderPage < MaxAttempts
    /\ \E i \in 1..Len(retryTimers) :
          /\ retryTimers' = Without(retryTimers, i)
          /\ renderCalls' = CallsAfterRenderPage(renderCalls, retryTimers[i])
    /\ attemptsMade' = attemptsMade + Len(renderCalls') - Len(renderCalls)
    /\ callsOfRenderPage' = callsOfRenderPage + Len(renderCalls') - Len(renderCalls)
    /\ UNCHANGED <<pdfDocument, loading, previewError, renderAttempts, effectDue,
                   uiVars, exVars, chVars, rkVars, rqVars, ccVars, puVars>>

\* The Retry button of the error view.
handleRetry ==
    /\ previewError
    /\ renderAttempts' = 0
    /\ previewError' = FALSE
    /\ effectDue' = (effectDue \/ renderAttempts # 0)
    /\ attemptsMade' = 0
    /\ UNCHANGED <<pdfDocument, loading, renderCalls, retryTimers,
                   callsOfRenderPage, uiVars, exVars, chVars, rkVars, rqVars, ccVars, puVars>>

NextPdfPreview ==
    \/ MountPdfPreview
    \/ PdfLoaded
    \/ PdfNotLoaded
    \/ RunRenderEffect
    \/ RenderSucceeds
    \/ RenderFails
    \/ RenderCancelled
    \/ RetryTimerFires
    \/ handleRetry

SpecPdfPreview == InitClient /\ [][NextPdfPreview]_vars

----------------------------------------------------------------------------
(* C30: the render retries                                                  *)

\* C30: renderAttempts never exceeds 3, and at most 4 render attempts are
\* made before the error state is set, whatever the order of the effect's
\* re-run and the 500 ms retry timer.
C30_RenderRetriesBounded ==
    /\ renderAttempts <= RetryLimit
    /\ attemptsMade <= RetryLimit + 1

\* The counter has passed 3 through the retry of a closure that held a
\* smaller value.
RenderAttemptsPastLimit ==
    /\ renderAttempts > RetryLimit
    /\ ~previewError
    /\ attemptsMade > RetryLimit + 1
====
